---- MODULE Spec2Model ----
(***************************************************************************)
(* A model of plangrid/soql: the declarative schema, the relationship path *)
(* builder, the join graph and its compiler, and the select clause         *)
(* builder.  Text nodes are immutable once built, so a node is represented *)
(* by the text it renders to, computed the way Node._as_string computes    *)
(* it (sep.join of the children's renderings).  Objects that are mutated   *)
(* after construction (builders, join graph nodes) or that alias such an   *)
(* object (subquery fragments) live in heaps indexed by object identity.   *)
(***************************************************************************)
EXTENDS Integers, Sequences, FiniteSets, TLC

VARIABLES
    registry,   \* model_registry: model name -> declared_attrs of the class
    builders,   \* heap of SelectClauseBuilder objects
    nodes,      \* heap of RelationshipNode objects
    frags,      \* heap of SubqueryClause objects returned by subquery()
    calls,      \* the calls made so far on builders, oldest first
    pbs,        \* heap of PathBuilder objects
    gets,       \* the attribute accesses made so far on models and paths
    pc,         \* position of each thread inside a builder method
    instances   \* heap of Model instances

vars == <<registry, builders, nodes, frags, calls, pbs, gets, pc, instances>>

(***************************************************************************)
(* Bounds of the model.                                                    *)
(***************************************************************************)
MaxCalls == 3
MaxGets == 3

(***************************************************************************)
(* Strings.                                                                *)
(***************************************************************************)
\* A local variable: `value` is computed once and named in `body`
Bind(value, body(_)) == body(value)

RECURSIVE JoinStr(_, _)
\* sep.join(items)
JoinStr(items, sep) ==
    IF items = <<>> THEN ""
    ELSE IF Len(items) = 1 THEN items[1]
    ELSE items[1] \o sep \o JoinStr(Tail(items), sep)

\* sub in text
Contains(text, sub) ==
    \E i \in 1..(Len(text) - Len(sub) + 1) :
        SubSeq(text, i, i + Len(sub) - 1) = sub

StartsWith(text, prefix) ==
    /\ Len(prefix) <= Len(text)
    /\ SubSeq(text, 1, Len(prefix)) = prefix

EndsWith(text, suffix) ==
    /\ Len(suffix) <= Len(text)
    /\ SubSeq(text, Len(text) - Len(suffix) + 1, Len(text)) = suffix

Alphabet == "abcdefghijklmnopqrstuvwxyz"

CharRank(c) ==
    IF \E i \in 1..Len(Alphabet) : SubSeq(Alphabet, i, i) = c
    THEN CHOOSE i \in 1..Len(Alphabet) : SubSeq(Alphabet, i, i) = c
    ELSE 0

RECURSIVE StrLess(_, _)
\* a < b on lower-case identifiers, as Python compares strings
StrLess(a, b) ==
    IF b = "" THEN FALSE
    ELSE IF a = "" THEN TRUE
    ELSE LET ca == CharRank(SubSeq(a, 1, 1))
             cb == CharRank(SubSeq(b, 1, 1))
         IN  IF ca # cb THEN ca < cb
             ELSE StrLess(SubSeq(a, 2, Len(a)), SubSeq(b, 2, Len(b)))

RECURSIVE Sorted(_)
\* sorted(keys): insertion of the head into the sorted tail
Sorted(keys) ==
    IF keys = <<>> THEN <<>>
    ELSE LET rest == Sorted(Tail(keys))
             k == Head(keys)
             lower == SelectSeq(rest, LAMBDA e : StrLess(e, k))
             upper == SelectSeq(rest, LAMBDA e : ~StrLess(e, k))
         IN  lower \o <<k>> \o upper

(***************************************************************************)
(* The declared schema: the models of tests/test_select.py and             *)
(* tests/test_path_builder.py.                                             *)
(***************************************************************************)
Column(key, salesforce_name) ==
    [key |-> key, kind |-> "Column", salesforce_name |-> salesforce_name,
     related_model |-> "", many |-> FALSE]

Relationship(key, salesforce_name, related_model, many) ==
    [key |-> key, kind |-> "Relationship", salesforce_name |-> salesforce_name,
     related_model |-> related_model, many |-> many]

Models == {"Grandparent", "Parent", "Child", "Teacher", "LinkedList", "GraphNode",
           "School"}

\* The attributes of a class body, in the order the source declares them.
ClassAttrs(m) ==
    CASE m = "Grandparent" -> << Column("id", "Id") >>
      [] m = "Parent" -> << Column("id", "Id"), Column("name", "Name"),
                            Column("age", "Age"),
                            Relationship("mom", "Mom", "Grandparent", FALSE) >>
      [] m = "Child" -> << Column("id", "Id"), Column("name", "Name"),
                           Relationship("mom", "Mom", "Parent", FALSE),
                           Relationship("dad", "Dad", "Parent", FALSE),
                           Relationship("teacher", "Teacher", "Teacher", FALSE) >>
      [] m = "Teacher" -> << Column("id", "Id"),
                             Relationship("students", "Students", "Child", TRUE) >>
      [] m = "LinkedList" -> << Column("id", "Id"),
                                Relationship("next", "Next", "LinkedList", FALSE) >>
      [] m = "GraphNode" -> << Column("id", "Id"), Column("value", "Value"),
                               Relationship("list", "List", "LinkedList", FALSE),
                               Relationship("children", "Children", "GraphNode", TRUE) >>
      \* a class with two to-one and two to-many relationships, which no
      \* class of the test modules has
      [] m = "School" -> << Column("id", "Id"),
                            Relationship("principal", "Principal", "Teacher", FALSE),
                            Relationship("founder", "Founder", "Parent", FALSE),
                            Relationship("students", "Students", "Child", TRUE),
                            Relationship("teachers", "Teachers", "Teacher", TRUE) >>
      \* two classes that name each other, as 'Foo' and 'Bar' of test_model.py
      \* do, here with a column each and both targets given by name
      [] m = "Foo" -> << Column("id", "Id"),
                         Relationship("bar", "Bar", "Bar", FALSE) >>
      [] m = "Bar" -> << Column("id", "Id"),
                         Relationship("foo", "Foo", "Foo", FALSE) >>
      [] OTHER -> <<>>

RECURSIVE KeysOf(_)
KeysOf(attrs) == IF attrs = <<>> THEN <<>> ELSE <<Head(attrs).key>> \o KeysOf(Tail(attrs))

RECURSIVE Lookup(_, _)
\* the attribute each key names, in the order of the keys
Lookup(body, keys) ==
    IF keys = <<>> THEN <<>>
    ELSE SelectSeq(body, LAMBDA a : a.key = Head(keys)) \o Lookup(body, Tail(keys))

\* A metaclass that keeps the attributes in the order of the class body
ModelMetaNewUnsorted(body) == body

\* _ModelMeta.__new__: declared_attrs holds the attributes by sorted key.
ModelMetaNew(body) == Lookup(body, Sorted(KeysOf(body)))

\* klass.declared_attrs of every declared model
DeclaredTable ==
    [Grandparent |-> ModelMetaNew(ClassAttrs("Grandparent")),
     Parent |-> ModelMetaNew(ClassAttrs("Parent")),
     Child |-> ModelMetaNew(ClassAttrs("Child")),
     Teacher |-> ModelMetaNew(ClassAttrs("Teacher")),
     LinkedList |-> ModelMetaNew(ClassAttrs("LinkedList")),
     GraphNode |-> ModelMetaNew(ClassAttrs("GraphNode")),
     School |-> ModelMetaNew(ClassAttrs("School"))]

\* model_registry: the declared_attrs of every model class defined so far
DeclaredAttrs(m) == IF m \in DOMAIN registry THEN registry[m] ELSE <<>>

\* item in declared_attrs
HasAttr(m, item) == SelectSeq(DeclaredAttrs(m), LAMBDA a : a.key = item) # <<>>

\* declared_attrs[item]
AttrOf(m, item) == Head(SelectSeq(DeclaredAttrs(m), LAMBDA a : a.key = item))

\* Model.__soql_name__: no test model sets __salesforce_object_name__
SoqlName(m) == m

\* Relationship.related_model
RelatedModel(attr) == attr.related_model

\* A registry that hands back a model for every name
GetByModelNameUnchecked(name) == [err |-> "", model |-> name]

\* ModelRegistry.get_by_model_name
GetByModelName(name) ==
    IF name \in DOMAIN registry THEN [err |-> "", model |-> name]
    ELSE [err |-> "ModelNotRegistered", model |-> ""]

\* Model.iter_columns: the keys of the Column attributes, in declared_attrs order
IterColumns(m) == KeysOf(SelectSeq(DeclaredAttrs(m), LAMBDA a : a.kind = "Column"))

(***************************************************************************)
(* PathBuilder.  A PathBuilder value is [model, path]; the outcome of an   *)
(* operation that may raise carries err ("" when it returned normally).    *)
(***************************************************************************)
PathBuilder(model, path) == [model |-> model, path |-> path]

RECURSIVE Walk(_, _)
\* The loop of _iterate_path over the relationships of `path`, from last_model
Walk(last_model, path) ==
    IF path = <<>> THEN [err |-> "", models |-> <<>>, attrs |-> <<>>]
    ELSE IF ~HasAttr(last_model, Head(path))
    THEN [err |-> "KeyError", models |-> <<>>, attrs |-> <<>>]
    ELSE LET model_relationship == AttrOf(last_model, Head(path))
         IN  IF model_relationship.kind # "Relationship"
             THEN [err |-> "AttributeError", models |-> <<>>, attrs |-> <<>>]
             ELSE LET found == GetByModelName(RelatedModel(model_relationship))
                      next_model == found.model
                      rest == Walk(next_model, Tail(path))
                  IN  IF found.err # ""
                      THEN [err |-> found.err, models |-> <<>>, attrs |-> <<>>]
                      ELSE [err |-> rest.err,
                            models |-> <<next_model>> \o rest.models,
                            attrs |-> <<model_relationship>> \o rest.attrs]

\* A slice path[0:path_index] that leaves out the relationship at path_index
SliceToExclusive(path, path_index) ==
    IF path_index = -1 THEN path
    ELSE SubSeq(path, 1, IF path_index < Len(path) THEN path_index ELSE Len(path))

\* self.path[0:inclusive_index]
SliceTo(path, path_index) ==
    IF path_index = -1 THEN path
    ELSE SubSeq(path, 1, IF path_index + 1 < Len(path) THEN path_index + 1 ELSE Len(path))

IteratePath(pb, path_index) == Walk(pb.model, SliceTo(pb.path, path_index))

RECURSIVE SalesforceNames(_)
SalesforceNames(attrs) ==
    IF attrs = <<>> THEN <<>>
    ELSE <<Head(attrs).salesforce_name>> \o SalesforceNames(Tail(attrs))

\* A path list built from the relationships' attribute keys, not their
\* salesforce names
BuildSoqlColumnPathFromKeys(pb) ==
    LET it == IteratePath(pb, -1)
    IN  [err |-> it.err, path |-> <<SoqlName(pb.model)>> \o KeysOf(it.attrs)]

BuildSoqlColumnPath(pb) ==
    LET it == IteratePath(pb, -1)
    IN  [err |-> it.err,
         path |-> <<SoqlName(pb.model)>> \o SalesforceNames(it.attrs)]

GetModelInPath(pb, path_index) ==
    LET it == IteratePath(pb, path_index)
    IN  [err |-> it.err,
         model |-> IF it.models = <<>> THEN pb.model ELSE it.models[Len(it.models)]]

NoAttr == Column("", "")

GetRelationshipAttrInPath(pb, path_index) ==
    LET it == IteratePath(pb, path_index)
    IN  [err |-> it.err,
         found |-> it.attrs # <<>>,
         attr |-> IF it.attrs = <<>> THEN NoAttr ELSE it.attrs[Len(it.attrs)]]

\* str(ColumnPath(*elements))
ColumnPath(elements) == JoinStr(elements, ".")

GetColumnNode(pb) ==
    LET p == BuildSoqlColumnPath(pb)
    IN  [err |-> p.err, text |-> IF p.err = "" THEN ColumnPath(p.path) ELSE ""]

Raised(e) == [kind |-> "raised", err |-> e, pb |-> PathBuilder("", <<>>), text |-> ""]

\* An extend_path that takes every undeclared item for a relationship
ExtendPathUnchecked(pb, item) ==
    LET last == GetModelInPath(pb, -1)
    IN  IF last.err # "" THEN Raised(last.err)
        ELSE IF HasAttr(last.model, item) /\ AttrOf(last.model, item).kind = "Column"
        THEN [kind |-> "ColumnPath", err |-> "", pb |-> PathBuilder("", <<>>),
              text |-> ColumnPath(BuildSoqlColumnPath(pb).path
                                  \o <<AttrOf(last.model, item).salesforce_name>>)]
        ELSE [kind |-> "PathBuilder", err |-> "",
              pb |-> PathBuilder(pb.model, pb.path \o <<item>>), text |-> ""]

\* extend_path: a new PathBuilder for a relationship, a ColumnPath for a column
ExtendPath(pb, item) ==
    LET last == GetModelInPath(pb, -1)
    IN  IF last.err # "" THEN Raised(last.err)
        ELSE IF ~HasAttr(last.model, item) THEN Raised("KeyError")
        ELSE LET attr == AttrOf(last.model, item)
             IN  IF attr.kind = "Relationship"
                 THEN [kind |-> "PathBuilder", err |-> "",
                       pb |-> PathBuilder(pb.model, pb.path \o <<item>>), text |-> ""]
                 ELSE LET p == BuildSoqlColumnPath(pb)
                      IN  IF p.err # "" THEN Raised(p.err)
                          ELSE [kind |-> "ColumnPath", err |-> "",
                                pb |-> PathBuilder("", <<>>),
                                text |-> ColumnPath(p.path \o <<attr.salesforce_name>>)]

RECURSIVE ColumnNodes(_, _)
\* [ColumnPath(self.extend_path(attr)) for attr in keys]
ColumnNodes(pb, keys) ==
    IF keys = <<>> THEN <<>>
    ELSE <<ColumnPath(<<ExtendPath(pb, Head(keys)).text>>)>> \o ColumnNodes(pb, Tail(keys))

\* get_last_model_column_nodes: one ColumnPath per column of the last model
GetLastModelColumnNodes(pb) ==
    LET last == GetModelInPath(pb, -1)
    IN  [err |-> last.err,
         cols |-> IF last.err = "" THEN ColumnNodes(pb, IterColumns(last.model)) ELSE <<>>]

\* _ModelMeta.__getattr__: Model.item
ModelGetattr(m, item) ==
    IF ~HasAttr(m, item) THEN Raised("AttributeError")
    ELSE ExtendPath(PathBuilder(m, <<>>), item)

(***************************************************************************)
(* Text nodes (nodes.py).  Python values handed to an Expression are       *)
(* tagged with their type: _stringify renders them by type.                *)
(***************************************************************************)
PyStr(s) == [t |-> "str", v |-> s]
PyInt(n) == [t |-> "int", v |-> ToString(n)]
PyNone == [t |-> "None", v |-> ""]
PyBool(b) == [t |-> "bool", v |-> IF b THEN "True" ELSE "False"]
PyNode(text) == [t |-> "Node", v |-> text]

Stringify(value) ==
    CASE value.t = "str" -> "'" \o value.v \o "'"
      [] value.t = "None" -> "NULL"
      [] value.t = "bool" -> (IF value.v = "True" THEN "TRUE" ELSE "FALSE")
      [] OTHER -> value.v

Grouped(node) == JoinStr(<<"(", node, ")">>, "")

Expression(lhs, op, rhs) == JoinStr(<<Stringify(lhs), op, Stringify(rhs)>>, " ")

CommaSeparated(items) == JoinStr(items, ", ")

AndSeparated(items) == JoinStr(items, " " \o "AND" \o " ")

Array(items) == JoinStr(<<Grouped(CommaSeparated(items))>>, "")

Function(function_name, args) == JoinStr(<<function_name, Array(args)>>, "")

Count == Function("COUNT", <<>>)

\* A Python list of values
PyList(items) == [t |-> "list", v |-> items]

\* A container node that puts a node it is given in parentheses of its own
GetContainerNodeGrouped(value) ==
    IF value.t = "Node" THEN PyNode(Grouped(value.v))
    ELSE PyNode(Array([i \in DOMAIN value.v |-> Stringify(value.v[i])]))

\* _get_container_node: a node is returned as it is, an iterable becomes an
\* Array of its stringified items
GetContainerNode(value) ==
    IF value.t = "Node" THEN value
    ELSE PyNode(Array([i \in DOMAIN value.v |-> Stringify(value.v[i])]))

\* Operatable.in_ and Operatable.not_in_
In(self, iterable) == Expression(self, "IN", GetContainerNode(iterable))
NotIn(self, iterable) == Expression(self, "NOT IN", GetContainerNode(iterable))

RECURSIVE FoldExpression(_, _, _)
\* The loop of _logical_expression: expression = Expression(expression, op, node)
FoldExpression(expression, rest, op) ==
    IF rest = <<>> THEN expression
    ELSE FoldExpression(Expression(PyNode(expression), op, Head(rest)), Tail(rest), op)

RECURSIVE FoldExpressionGrouped(_, _, _)
FoldExpressionGrouped(expression, rest, op) ==
    IF rest = <<>> THEN expression
    ELSE FoldExpressionGrouped(
             Expression(PyNode(Grouped(expression)), op, Head(rest)), Tail(rest), op)

\* A combinator that puts every fold but the last in parentheses of its own
LogicalExpressionGroupingFolds(operands, op) ==
    IF Len(operands) < 2 THEN [err |-> "IndexError", text |-> ""]
    ELSE [err |-> "",
          text |-> Grouped(FoldExpressionGrouped(
                       Expression(operands[1], op, operands[2]),
                       SubSeq(operands, 3, Len(operands)), op))]

\* _logical_expression: nodes[1] of fewer than two nodes raises IndexError
LogicalExpression(operands, op) ==
    IF Len(operands) < 2 THEN [err |-> "IndexError", text |-> ""]
    ELSE [err |-> "",
          text |-> Grouped(FoldExpression(
                       Expression(operands[1], op, operands[2]),
                       SubSeq(operands, 3, Len(operands)), op))]

\* and_, or_, not_
And(operands) == LogicalExpression(operands, "AND")
Or(operands) == LogicalExpression(operands, "OR")
Not(node) == [err |-> "", text |-> JoinStr(<<"NOT", node.v>>, " ")]

\* An optional value: <<>> is None, <<n>> is the integer n
None == <<>>
Some(n) == <<n>>
IsNone(opt) == opt = <<>>
\* the truth value Python gives an optional integer
Truthy(opt) == opt # <<>> /\ opt[1] # 0

\* A SelectClause that tests limit and offset for truth, not for None
SelectClauseByTruth(select_columns, from_table, where_conditions, order_bys, limit, offset) ==
    JoinStr(
        <<"SELECT", CommaSeparated(select_columns), "FROM", from_table>>
        \o (IF where_conditions # <<>>
            THEN <<"WHERE", AndSeparated(where_conditions)>> ELSE <<>>)
        \o (IF order_bys # <<>>
            THEN <<"ORDER BY", CommaSeparated(order_bys)>> ELSE <<>>)
        \o (IF Truthy(limit) THEN <<"LIMIT", ToString(limit[1])>> ELSE <<>>)
        \o (IF Truthy(offset) THEN <<"OFFSET", ToString(offset[1])>> ELSE <<>>),
        " ")

\* SelectClause.__init__ followed by str(): the nodes list joined by ' '
SelectClause(select_columns, from_table, where_conditions, order_bys, limit, offset) ==
    JoinStr(
        <<"SELECT", CommaSeparated(select_columns), "FROM", from_table>>
        \o (IF where_conditions # <<>>
            THEN <<"WHERE", AndSeparated(where_conditions)>> ELSE <<>>)
        \o (IF order_bys # <<>>
            THEN <<"ORDER BY", CommaSeparated(order_bys)>> ELSE <<>>)
        \o (IF ~IsNone(limit) THEN <<"LIMIT", ToString(limit[1])>> ELSE <<>>)
        \o (IF ~IsNone(offset) THEN <<"OFFSET", ToString(offset[1])>> ELSE <<>>),
        " ")

\* OrderByClause: direction and nulls_position are "" when not given
OrderByClause(column, direction, nulls_position) ==
    JoinStr(
        <<column>>
        \o (IF direction # "" THEN <<direction>> ELSE <<>>)
        \o (IF nulls_position # "" THEN <<nulls_position>> ELSE <<>>),
        " ")

\* SubqueryClause over lists nobody else holds
SubqueryClause(select_columns, from_table, where_conditions) ==
    Grouped(SelectClause(select_columns, from_table, where_conditions, <<>>, None, None))

(***************************************************************************)
(* Model instances.  A value is [t, v] as above; UNSET and UNLOADED are    *)
(* the two placeholder classes of model.py.  An instance is                *)
(* [model, instance_attrs, changed_attrs, dict]: dict is the object's own  *)
(* __dict__ without _instance_attrs and _changed_attrs.                    *)
(***************************************************************************)
PyDate(iso) == [t |-> "date", v |-> iso]
\* the dictionary of one related object in a payload, and the instance
\* load_model_from_salesforce_data makes of it
PyDict(type) == [t |-> "dict", v |-> type]
PyModel(type) == [t |-> "Model", v |-> type]
UNSET == [t |-> "UNSET", v |-> ""]
UNLOADED == [t |-> "UNLOADED", v |-> ""]
NoValue == [t |-> "", v |-> ""]

IntegerColumn(key, salesforce_name, nullable) ==
    [key |-> key, kind |-> "Column", salesforce_name |-> salesforce_name,
     related_model |-> "", many |-> FALSE, type |-> "Integer", nullable |-> nullable]

StringColumn(key, salesforce_name, nullable) ==
    [key |-> key, kind |-> "Column", salesforce_name |-> salesforce_name,
     related_model |-> "", many |-> FALSE, type |-> "String", nullable |-> nullable]

DateColumn(key, salesforce_name, nullable) ==
    [key |-> key, kind |-> "Column", salesforce_name |-> salesforce_name,
     related_model |-> "", many |-> FALSE, type |-> "Date", nullable |-> nullable]

\* Relationship.__init__ hands no `nullable` on: a relationship is not nullable
ToOne(key, salesforce_name, related_model) ==
    [key |-> key, kind |-> "Relationship", salesforce_name |-> salesforce_name,
     related_model |-> related_model, many |-> FALSE, type |-> "Relationship",
     nullable |-> FALSE]

\* AllZeTypes of tests/test_model.py without its Float and DateTime columns,
\* and with a nullable Date column and a relationship, which no class of
\* the test module declares beside columns
TypedClassAttrs(m) ==
    CASE m = "AllZeTypes" -> << IntegerColumn("id", "Id", FALSE),
                                StringColumn("name", "Name", FALSE),
                                DateColumn("start_date", "StartDate", FALSE),
                                DateColumn("end_date", "EndDate", TRUE),
                                ToOne("parent", "Parent", "AParent") >>
      [] OTHER -> <<>>

\* klass.declared_attrs of every class with typed columns
TypedDeclaredTable == [AllZeTypes |-> ModelMetaNew(TypedClassAttrs("AllZeTypes"))]

\* cls.declared_attrs
TypedDeclaredAttrs(m) == TypedDeclaredTable[m]

TypedKeys(m) == {TypedDeclaredAttrs(m)[k].key : k \in DOMAIN TypedDeclaredAttrs(m)}

TypedAttr(m, key) ==
    TypedDeclaredAttrs(m)[CHOOSE k \in DOMAIN TypedDeclaredAttrs(m) :
                              TypedDeclaredAttrs(m)[k].key = key]

Digits == {"0", "1", "2", "3", "4", "5", "6", "7", "8", "9"}

\* int(s) succeeds on s: digits only (the inputs have no sign and no
\* leading zero, so int(s) prints as s)
IsDigits(s) == s # "" /\ \A i \in 1..Len(s) : SubSeq(s, i, i) \in Digits

\* dateutil's parse(s) on the strings of the inputs: a date for YYYY-MM-DD
IsIsoDate(s) ==
    /\ Len(s) = 10
    /\ \A i \in {1, 2, 3, 4, 6, 7, 9, 10} : SubSeq(s, i, i) \in Digits
    /\ SubSeq(s, 5, 5) = "-" /\ SubSeq(s, 8, 8) = "-"

\* attr._coerce(value) of Integer, String, Date and of AttributeBase
CoerceToType(attr, value) ==
    CASE attr.type = "Integer" ->
             (CASE value.t = "int" -> [err |-> "", value |-> value]
                [] value.t = "str" /\ IsDigits(value.v) ->
                       [err |-> "", value |-> [t |-> "int", v |-> value.v]]
                [] value.t = "str" -> [err |-> "ValueError", value |-> NoValue]
                [] OTHER -> [err |-> "TypeError", value |-> NoValue])
      [] attr.type = "String" ->
             (CASE value.t \in {"str", "int", "date"} ->
                       [err |-> "", value |-> PyStr(value.v)]
                [] OTHER -> [err |-> "", value |-> PyStr("<" \o value.t \o ">")])
      [] attr.type = "Date" ->
             (CASE value.t = "date" -> [err |-> "", value |-> value]
                [] value.t = "str" /\ IsIsoDate(value.v) ->
                       [err |-> "", value |-> PyDate(value.v)]
                [] value.t = "str" -> [err |-> "ValueError", value |-> NoValue]
                [] OTHER -> [err |-> "TypeError", value |-> NoValue])
      [] OTHER -> [err |-> "", value |-> value]

\* AttributeBase.coerce
Coerce(attr, value) ==
    IF attr.nullable /\ value = PyNone THEN [err |-> "", value |-> value]
    ELSE IF ~attr.nullable /\ value = PyNone
    THEN [err |-> "NullSalesforceColumnError", value |-> NoValue]
    ELSE CoerceToType(attr, value)

\* attr.load(value): AttributeBase.load, and Relationship.load of a to-one
AttrLoad(attr, value) ==
    IF attr.kind = "Relationship" /\ value.t = "dict" THEN PyModel(value.v)
    ELSE value

\* attr.serialize(value): Date.serialize calls value.isoformat()
Serialize(attr, value) ==
    IF attr.type = "Date"
    THEN IF value.t = "date" THEN [err |-> "", value |-> PyStr(value.v)]
         ELSE [err |-> "AttributeError", value |-> NoValue]
    ELSE [err |-> "", value |-> value]

NoInstance ==
    [model |-> "", instance_attrs |-> <<>>, changed_attrs |-> {}, dict |-> <<>>]

\* Model.__init__(**kwargs): the first attribute, in declared_attrs order,
\* whose value does not coerce raises
ModelInit(m, kwargs) ==
    LET attrs == TypedDeclaredAttrs(m)
        given(k) == attrs[k].key \in DOMAIN kwargs
                    /\ kwargs[attrs[k].key] # UNLOADED
        failed == {k \in DOMAIN attrs :
                      given(k) /\ Coerce(attrs[k], kwargs[attrs[k].key]).err # ""}
        first == CHOOSE k \in failed : \A j \in failed : k <= j
    IN  IF failed # {}
        THEN [err |-> Coerce(attrs[first], kwargs[attrs[first].key]).err,
              instance |-> NoInstance]
        ELSE [err |-> "",
              instance |->
                [model |-> m,
                 instance_attrs |->
                    [key \in TypedKeys(m) |->
                        IF key \notin DOMAIN kwargs THEN UNSET
                        ELSE IF kwargs[key] = UNLOADED THEN UNLOADED
                        ELSE Coerce(TypedAttr(m, key), kwargs[key]).value],
                 changed_attrs |-> {},
                 dict |-> <<>>]]

\* Model.__getattr__: reached when the object's own __dict__ has no `item`
ModelGetattrOfInstance(self, item) ==
    IF item \notin DOMAIN self.instance_attrs
    THEN [err |-> "AttributeError", value |-> NoValue]
    ELSE IF self.instance_attrs[item] = UNLOADED
    THEN [err |-> "AttributeNotLoaded", value |-> NoValue]
    ELSE IF self.instance_attrs[item] = UNSET
    THEN [err |-> "AttributeNotSet", value |-> NoValue]
    ELSE [err |-> "", value |-> self.instance_attrs[item]]

\* getattr(self, item): the object's own __dict__ first, then __getattr__
Getattr(self, item) ==
    IF item \in DOMAIN self.dict THEN [err |-> "", value |-> self.dict[item]]
    ELSE ModelGetattrOfInstance(self, item)

\* object.__setattr__(self, key, value)
ObjectSetattr(self, key, value) ==
    [err |-> "", instance |-> [self EXCEPT !.dict = (key :> value) @@ @]]

\* Model.__setattr__
ModelSetattr(self, key, value) ==
    IF key \notin DOMAIN self.instance_attrs THEN ObjectSetattr(self, key, value)
    ELSE IF TypedAttr(self.model, key).kind = "Relationship"
    THEN ObjectSetattr(self, key, value)
    ELSE LET coerced == Coerce(TypedAttr(self.model, key), value)
             current == Getattr(self, key)
         IN  IF coerced.err # "" THEN [err |-> coerced.err, instance |-> self]
             ELSE IF current.err # "" THEN [err |-> current.err, instance |-> self]
             ELSE [err |-> "",
                   instance |->
                     [self EXCEPT
                        !.changed_attrs =
                            IF coerced.value # current.value
                            THEN @ \cup {key} ELSE @,
                        !.instance_attrs[key] = coerced.value]]

\* Model.changes
ModelChanges(self) ==
    LET serialized(key) ==
            Serialize(TypedAttr(self.model, key), Getattr(self, key).value)
        raising == {key \in self.changed_attrs :
                       Getattr(self, key).err # "" \/ serialized(key).err # ""}
        some == CHOOSE key \in raising : TRUE
    IN  IF raising # {}
        THEN [err |-> IF Getattr(self, some).err # "" THEN Getattr(self, some).err
                      ELSE serialized(some).err,
              changes |-> {}]
        ELSE [err |-> "",
              changes |->
                 {<<TypedAttr(self.model, key).salesforce_name, serialized(key).value>> :
                     key \in self.changed_attrs}]

\* A load that marks a missing column UNLOADED, as it marks a relationship
ModelLoadLenient(m, data) ==
    ModelInit(m,
        [key \in TypedKeys(m) |->
            IF TypedAttr(m, key).salesforce_name \notin DOMAIN data THEN UNLOADED
            ELSE AttrLoad(TypedAttr(m, key), data[TypedAttr(m, key).salesforce_name])])

\* Model.load
ModelLoad(m, data) ==
    LET attrs == TypedDeclaredAttrs(m)
        missing == {k \in DOMAIN attrs :
                       attrs[k].kind = "Column"
                       /\ attrs[k].salesforce_name \notin DOMAIN data}
    IN  IF missing # {} THEN [err |-> "ExpectedColumnMissing", instance |-> NoInstance]
        ELSE ModelInit(m,
                [key \in TypedKeys(m) |->
                    IF TypedAttr(m, key).salesforce_name \notin DOMAIN data
                    THEN UNLOADED
                    ELSE AttrLoad(TypedAttr(m, key),
                                  data[TypedAttr(m, key).salesforce_name])])

\* Model.reset_instance_state
ResetInstanceState(self) == [self EXCEPT !.changed_attrs = {}]

(***************************************************************************)
(* The join graph (select.py, RelationshipNode).  A node is                *)
(* [relationship, child_relationships]; relationship "" is None (the       *)
(* root); child_relationships is the OrderedDict as a sequence of          *)
(* [key, node] entries, node being the identity of the child.              *)
(***************************************************************************)
RelationshipNode(relationship) ==
    [relationship |-> relationship, child_relationships |-> <<>>]

HasChild(heap, n, relationship) ==
    \E i \in 1..Len(heap[n].child_relationships) :
        heap[n].child_relationships[i].key = relationship

ChildOf(heap, n, relationship) ==
    LET cs == heap[n].child_relationships
    IN  cs[CHOOSE i \in 1..Len(cs) : cs[i].key = relationship].node

\* add_child: a fresh node stored under the key; a key the OrderedDict holds
\* already keeps its position and gets the fresh node
AddChild(heap, n, relationship) ==
    LET fresh == Len(heap) + 1
        cs == heap[n].child_relationships
        stored == IF HasChild(heap, n, relationship)
                  THEN [i \in 1..Len(cs) |->
                            IF cs[i].key = relationship
                            THEN [key |-> relationship, node |-> fresh] ELSE cs[i]]
                  ELSE Append(cs, [key |-> relationship, node |-> fresh])
    IN  Append([heap EXCEPT ![n].child_relationships = stored],
               RelationshipNode(relationship))

RECURSIVE AddPathAlwaysAdds(_, _, _)
\* An add_path that calls add_child for every relationship of the path
AddPathAlwaysAdds(heap, n, path) ==
    IF path = <<>> THEN heap
    ELSE LET grown == AddChild(heap, n, Head(path))
         IN  AddPathAlwaysAdds(grown, ChildOf(grown, n, Head(path)), Tail(path))

RECURSIVE AddPathOneNode(_, _, _)
\* An add_path that returns as soon as it has created one child
AddPathOneNode(heap, n, path) ==
    IF path = <<>> THEN heap
    ELSE IF HasChild(heap, n, Head(path))
         THEN AddPathOneNode(heap, ChildOf(heap, n, Head(path)), Tail(path))
         ELSE AddChild(heap, n, Head(path))

RECURSIVE AddPath(_, _, _)
\* add_path: walk down from n, creating the children that are missing
AddPath(heap, n, path) ==
    IF path = <<>> THEN heap
    ELSE LET grown == IF HasChild(heap, n, Head(path)) THEN heap
                      ELSE AddChild(heap, n, Head(path))
         IN  AddPath(grown, ChildOf(grown, n, Head(path)), Tail(path))

\* RelationshipNode.__copy__: a new node holding copy(child_relationships)
CopyNode(heap, n) ==
    Append(heap, [relationship |-> heap[n].relationship,
                  child_relationships |-> heap[n].child_relationships])

(***************************************************************************)
(* The join compiler (select.py, _recursively_compile_joins).              *)
(***************************************************************************)
RECURSIVE RecursivelyCompileJoins(_, _, _)
RECURSIVE CompileChildren(_, _, _, _)

\* A loop body that puts the columns of a to-one child after what the loop
\* has collected so far
CompileChildrenAppending(heap, path, children, joins) ==
    IF children = <<>> THEN [err |-> "", joins |-> joins]
    ELSE
    Bind(Head(children).node, LAMBDA child_node :
    Bind(ExtendPath(path, heap[child_node].relationship).pb, LAMBDA child_path :
    Bind(GetRelationshipAttrInPath(child_path, -1).attr, LAMBDA attr :
        IF attr.many
        THEN CompileChildren(
                 heap, path, Tail(children),
                 Append(joins,
                        SubqueryClause(
                            RecursivelyCompileJoins(
                                heap, PathBuilder(RelatedModel(attr), <<>>),
                                child_node).joins,
                            GetColumnNode(child_path).text, <<>>)))
        ELSE CompileChildren(
                 heap, path, Tail(children),
                 joins \o RecursivelyCompileJoins(heap, child_path, child_node).joins))))

\* A loop body that compiles the subtree of a to-many child with the outer
\* path, not with a new path from the related model
CompileChildrenOuterPath(heap, path, children, joins) ==
    IF children = <<>> THEN [err |-> "", joins |-> joins]
    ELSE
    Bind(Head(children).node, LAMBDA child_node :
    Bind(ExtendPath(path, heap[child_node].relationship).pb, LAMBDA child_path :
    Bind(GetRelationshipAttrInPath(child_path, -1).attr, LAMBDA attr :
        IF attr.many
        THEN CompileChildren(
                 heap, path, Tail(children),
                 Append(joins,
                        SubqueryClause(
                            RecursivelyCompileJoins(heap, child_path, child_node).joins,
                            GetColumnNode(child_path).text, <<>>)))
        ELSE CompileChildren(
                 heap, path, Tail(children),
                 RecursivelyCompileJoins(heap, child_path, child_node).joins \o joins))))

\* A loop body that puts the columns of a to-one child after the columns
\* collected so far and before the subqueries collected so far
CompileChildrenToOneInOrder(heap, path, children, joins) ==
    IF children = <<>> THEN [err |-> "", joins |-> joins]
    ELSE
    Bind(Head(children).node, LAMBDA child_node :
    Bind(ExtendPath(path, heap[child_node].relationship).pb, LAMBDA child_path :
    Bind(GetRelationshipAttrInPath(child_path, -1).attr, LAMBDA attr :
        IF attr.many
        THEN CompileChildren(
                 heap, path, Tail(children),
                 Append(joins,
                        SubqueryClause(
                            RecursivelyCompileJoins(
                                heap, PathBuilder(RelatedModel(attr), <<>>),
                                child_node).joins,
                            GetColumnNode(child_path).text, <<>>)))
        ELSE CompileChildren(
                 heap, path, Tail(children),
                 SelectSeq(joins, LAMBDA j : ~StartsWith(j, "(SELECT "))
                 \o RecursivelyCompileJoins(heap, child_path, child_node).joins
                 \o SelectSeq(joins, LAMBDA j : StartsWith(j, "(SELECT "))))))

\* The body of "for child_node in node" for the children still to visit
CompileChildren(heap, path, children, joins) ==
    IF children = <<>> THEN [err |-> "", joins |-> joins]
    ELSE
    Bind(Head(children).node, LAMBDA child_node :
    Bind(ExtendPath(path, heap[child_node].relationship), LAMBDA ext :
        IF ext.err # "" THEN [err |-> ext.err, joins |-> <<>>]
        ELSE IF ext.kind # "PathBuilder" THEN [err |-> "AttributeError", joins |-> <<>>]
        ELSE
        Bind(ext.pb, LAMBDA child_path :
        Bind(GetRelationshipAttrInPath(child_path, -1), LAMBDA got :
        IF got.err # "" THEN [err |-> got.err, joins |-> <<>>]
        ELSE
        Bind(got.attr, LAMBDA attr :
            IF attr.many
            THEN Bind(RecursivelyCompileJoins(
                          heap, PathBuilder(RelatedModel(attr), <<>>), child_node),
                      LAMBDA aggregate_join :
                 IF aggregate_join.err # "" THEN aggregate_join
                 ELSE CompileChildren(
                          heap, path, Tail(children),
                          Append(joins, SubqueryClause(aggregate_join.joins,
                                                       GetColumnNode(child_path).text,
                                                       <<>>))))
            ELSE Bind(RecursivelyCompileJoins(heap, child_path, child_node),
                      LAMBDA column_joins :
                 IF column_joins.err # "" THEN column_joins
                 ELSE CompileChildren(heap, path, Tail(children),
                                      column_joins.joins \o joins)))))))

\* A _recursively_compile_joins that puts the node's own columns after the
\* joins of its children
RecursivelyCompileJoinsOwnLast(heap, path, node) ==
    Bind(CompileChildren(heap, path, heap[node].child_relationships, <<>>), LAMBDA r :
        IF r.err # "" THEN r
        ELSE IF heap[node].relationship = "" THEN r
        ELSE Bind(GetLastModelColumnNodes(path), LAMBDA own :
                 [err |-> own.err, joins |-> r.joins \o own.cols]))

\* _recursively_compile_joins: the children's joins, after the columns of the
\* node's own model unless the node is the root
RecursivelyCompileJoins(heap, path, node) ==
    Bind(CompileChildren(heap, path, heap[node].child_relationships, <<>>), LAMBDA r :
        IF r.err # "" THEN r
        ELSE IF heap[node].relationship = "" THEN r
        ELSE Bind(GetLastModelColumnNodes(path), LAMBDA own :
                 [err |-> own.err, joins |-> own.cols \o r.joins]))

(***************************************************************************)
(* The select clause builder (select.py, SelectClauseBuilder).  A builder  *)
(* is [model, columns, filters, order_bys, graph, limit, offset, count];   *)
(* graph is the identity of its root RelationshipNode.  The lists of a     *)
(* builder are its own: __init__ and __copy__ give every builder new ones. *)
(***************************************************************************)
\* SelectClauseBuilder.__init__ with its root node at identity `graph`
NewBuilder(model, graph) ==
    [model |-> model,
     columns |-> GetLastModelColumnNodes(PathBuilder(model, <<>>)).cols,
     filters |-> <<>>,
     order_bys |-> <<>>,
     graph |-> graph,
     limit |-> None,
     offset |-> None,
     count |-> FALSE]

\* SelectClauseBuilder.__copy__: the copy's graph is the node copied to `graph`
CopyBuilder(self, graph) ==
    [model |-> self.model,
     columns |-> self.columns,
     filters |-> self.filters,
     order_bys |-> self.order_bys,
     graph |-> graph,
     limit |-> self.limit,
     offset |-> self.offset,
     count |-> self.count]

CompileJoins(self, heap) ==
    RecursivelyCompileJoins(heap, PathBuilder(self.model, <<>>), self.graph)

\* A column list that puts the count first and keeps the other columns
GetColumnsCountFirst(self, heap) ==
    Bind(CompileJoins(self, heap), LAMBDA joins :
        [err |-> joins.err,
         cols |-> (IF self.count THEN <<Count>> ELSE <<>>)
                  \o self.columns \o joins.joins])

GetColumns(self, heap) ==
    IF self.count THEN [err |-> "", cols |-> <<Count>>]
    ELSE Bind(CompileJoins(self, heap), LAMBDA joins :
             [err |-> joins.err, cols |-> self.columns \o joins.joins])

\* str(builder): _get_select_clause rendered, or the error it raises
BuilderStr(self, heap) ==
    Bind(GetColumns(self, heap), LAMBDA cols :
        IF cols.err # "" THEN [err |-> cols.err, text |-> ""]
        ELSE [err |-> "",
              text |-> SelectClause(cols.cols, SoqlName(self.model), self.filters,
                                    self.order_bys, self.limit, self.offset)])

\* The guard of subquery(): ordering, limit or offset set
SubqueryIsntValid(self) ==
    self.order_bys # <<>> \/ Truthy(self.limit) \/ Truthy(self.offset)

\* A SubqueryClause returned by subquery(): its column list is a new list,
\* its AndSeparated node holds the filter list of builder `filters_of` itself.
Fragment(select_columns, from_table, has_where, filters_of) ==
    [select_columns |-> select_columns, from_table |-> from_table,
     has_where |-> has_where, filters_of |-> filters_of]

(***************************************************************************)
(* Inputs of the calls.                                                    *)
(***************************************************************************)
RECURSIVE Chain(_, _)
\* Model.a.b.c: the attribute accesses that build a path, innermost first
Chain(m, items) ==
    IF Len(items) = 1 THEN ModelGetattr(m, items[1])
    ELSE LET inner == Chain(m, SubSeq(items, 1, Len(items) - 1))
         IN  IF inner.kind # "PathBuilder" THEN Raised("AttributeError")
             ELSE ExtendPath(inner.pb, items[Len(items)])

ChildId == Chain("Child", <<"id">>).text
ChildName == Chain("Child", <<"name">>).text

\* Child.id == '123' and Child.name == 'Jill' (Operatable.__eq__)
FilterX == Expression(PyNode(ChildId), "=", PyStr("123"))
FilterY == Expression(PyNode(ChildName), "=", PyStr("Jill"))

Roots == {"Child"}
WhereArgs == {FilterX, FilterY}
JoinArgs == {Chain("Child", <<"mom">>).pb,
             Chain("Child", <<"mom", "mom">>).pb,
             Chain("Child", <<"teacher", "students">>).pb,
             Chain("Teacher", <<"students">>).pb}
OrderByArgs == {<<ChildName, "", "">>, <<ChildId, "DESC", "NULLS LAST">>}
LimitArgs == {0, 10}
OffsetArgs == {0, 10}
ColumnsArgs == {<<ChildName>>}

(***************************************************************************)
(* The calls on builders.  Every call appends a record to `calls`:         *)
(*   thread          the thread that made it (0: the only one)             *)
(*   op, self, arg   the method, the builder it was called on, its inputs  *)
(*   ret             the builder it returned (0: none)                     *)
(*   frag            the fragment it returned (0: none)                    *)
(*   err             the exception it raised ("": none)                    *)
(*   pre, before     self's fields and str(self) when the call began       *)
(*   after           str(ret) when the call returned; for str(), the       *)
(*                   outcome of the call itself                            *)
(***************************************************************************)
Threads == {1, 2}
NoText == [err |-> "", text |-> ""]
NoBuilder == NewBuilder("", 0)
Idle == [at |-> "idle", op |-> "", self |-> 0, arg |-> <<>>,
         pre |-> NoBuilder, before |-> NoText]

\* str() of builder b in the current state
Str(b) == BuilderStr(builders[b], nodes)

\* str() of fragment f in the current state
FragStr(f) ==
    Grouped(SelectClause(
        frags[f].select_columns, frags[f].from_table,
        IF frags[f].has_where THEN builders[frags[f].filters_of].filters ELSE <<>>,
        <<>>, None, None))

\* The change each method makes to self before it copies self
SetGraph(ns, graph, path) == AddPath(ns, graph, path)
\* A filter list that takes an expression once
SetFiltersOnce(bs, b, expression) ==
    IF \E k \in DOMAIN bs[b].filters : bs[b].filters[k] = expression THEN bs
    ELSE [bs EXCEPT ![b].filters = Append(@, expression)]
SetFilters(bs, b, expression) == [bs EXCEPT ![b].filters = Append(@, expression)]
SetOrderBys(bs, b, clause) == [bs EXCEPT ![b].order_bys = Append(@, clause)]
\* A limit that is kept once it is set
SetLimitKeepingFirst(bs, b, n) ==
    IF bs[b].limit = None THEN [bs EXCEPT ![b].limit = Some(n)] ELSE bs
SetLimit(bs, b, n) == [bs EXCEPT ![b].limit = Some(n)]
SetOffset(bs, b, n) == [bs EXCEPT ![b].offset = Some(n)]
SetCount(bs, b) == [bs EXCEPT ![b].count = TRUE]
\* A column list that grows by the columns it is given
SetColumnsAppending(bs, b, cols) == [bs EXCEPT ![b].columns = @ \o cols]
SetColumns(bs, b, cols) == [bs EXCEPT ![b].columns = cols]

\* "return copy(self)" once the method has changed self: bs, ns are the heaps
\* holding that change
ReturnCopy(t, op, b, arg, pre, before, bs, ns) ==
    LET ns2 == CopyNode(ns, bs[b].graph)
        bs2 == Append(bs, CopyBuilder(bs[b], Len(ns2)))
    IN  /\ builders' = bs2
        /\ nodes' = ns2
        /\ calls' = Append(calls,
                [thread |-> t, op |-> op, self |-> b, arg |-> arg,
                 ret |-> Len(bs2), frag |-> 0, err |-> "",
                 pre |-> pre, before |-> before,
                 after |-> BuilderStr(bs2[Len(bs2)], ns2)])

Join(b, path_builder) ==
    /\ ReturnCopy(0, "join", b, path_builder.path, builders[b], Str(b),
                  builders, SetGraph(nodes, builders[b].graph, path_builder.path))
    /\ UNCHANGED <<registry, frags, pbs, gets, pc, instances>>

Where(b, expression) ==
    /\ ReturnCopy(0, "where", b, <<expression>>, builders[b], Str(b),
                  SetFilters(builders, b, expression), nodes)
    /\ UNCHANGED <<registry, frags, pbs, gets, pc, instances>>

OrderBy(b, column, direction, nulls_position) ==
    /\ ReturnCopy(0, "order_by", b, <<column, direction, nulls_position>>,
                  builders[b], Str(b),
                  SetOrderBys(builders, b,
                              OrderByClause(column, direction, nulls_position)),
                  nodes)
    /\ UNCHANGED <<registry, frags, pbs, gets, pc, instances>>

Limit(b, n) ==
    /\ ReturnCopy(0, "limit", b, <<ToString(n)>>, builders[b], Str(b),
                  SetLimit(builders, b, n), nodes)
    /\ UNCHANGED <<registry, frags, pbs, gets, pc, instances>>

Offset(b, n) ==
    /\ ReturnCopy(0, "offset", b, <<ToString(n)>>, builders[b], Str(b),
                  SetOffset(builders, b, n), nodes)
    /\ UNCHANGED <<registry, frags, pbs, gets, pc, instances>>

CountCall(b) ==
    /\ ReturnCopy(0, "count", b, <<>>, builders[b], Str(b),
                  SetCount(builders, b), nodes)
    /\ UNCHANGED <<registry, frags, pbs, gets, pc, instances>>

Columns(b, cols) ==
    /\ ReturnCopy(0, "columns", b, cols, builders[b], Str(b),
                  SetColumns(builders, b, cols), nodes)
    /\ UNCHANGED <<registry, frags, pbs, gets, pc, instances>>

Subquery(b) ==
    LET self == builders[b]
        cols == GetColumns(self, nodes)
        err == IF SubqueryIsntValid(self) THEN "SelectClauseIsntValidSubquery"
               ELSE cols.err
    IN  /\ frags' = IF err # "" THEN frags
                    ELSE Append(frags, Fragment(cols.cols, SoqlName(self.model),
                                                self.filters # <<>>, b))
        /\ calls' = Append(calls,
                [thread |-> 0, op |-> "subquery", self |-> b, arg |-> <<>>,
                 ret |-> 0, frag |-> IF err # "" THEN 0 ELSE Len(frags) + 1,
                 err |-> err, pre |-> self, before |-> Str(b), after |-> NoText])
        /\ UNCHANGED <<registry, builders, nodes, pbs, gets, pc, instances>>

\* A __str__ that empties the filter list it has rendered
RenderDrainingFilters(b) ==
    LET text == Str(b)
    IN  /\ calls' = Append(calls,
                [thread |-> 0, op |-> "str", self |-> b, arg |-> <<>>,
                 ret |-> 0, frag |-> 0, err |-> text.err,
                 pre |-> builders[b], before |-> text, after |-> text])
        /\ builders' = [builders EXCEPT ![b].filters = <<>>]
        /\ UNCHANGED <<registry, nodes, frags, pbs, gets, pc, instances>>

Render(b) ==
    LET text == Str(b)
    IN  /\ calls' = Append(calls,
                [thread |-> 0, op |-> "str", self |-> b, arg |-> <<>>,
                 ret |-> 0, frag |-> 0, err |-> text.err,
                 pre |-> builders[b], before |-> text, after |-> text])
        /\ UNCHANGED <<registry, builders, nodes, frags, pbs, gets, pc, instances>>

Init ==
    /\ registry = DeclaredTable
    /\ \E m \in Roots : builders = <<NewBuilder(m, 1)>>
    /\ nodes = <<RelationshipNode("")>>
    /\ frags = <<>>
    /\ calls = <<>>
    /\ pbs = <<>>
    /\ gets = <<>>
    /\ pc = [t \in Threads |-> Idle]
    /\ instances = <<>>

\* The builders a next call can be made on: none once MaxCalls calls were made
Callable == IF Len(calls) < MaxCalls THEN DOMAIN builders ELSE {}

Next ==
    \/ \E b \in Callable : \E p \in JoinArgs : Join(b, p)
    \/ \E b \in Callable : \E e \in WhereArgs : Where(b, e)
    \/ \E b \in Callable : \E o \in OrderByArgs : OrderBy(b, o[1], o[2], o[3])
    \/ \E b \in Callable : \E n \in LimitArgs : Limit(b, n)
    \/ \E b \in Callable : \E n \in OffsetArgs : Offset(b, n)
    \/ \E b \in Callable : CountCall(b)
    \/ \E b \in Callable : \E cols \in ColumnsArgs : Columns(b, cols)
    \/ \E b \in Callable : Subquery(b)
    \/ \E b \in Callable : Render(b)

Spec == Init /\ [][Next]_vars

(***************************************************************************)
(* Claims about the sequential builder (Spec).                             *)
(***************************************************************************)
LastCall == calls[Len(calls)]

\* C1: snapshot independence of where().  When B1 = B0.where(X) and then
\* B2 = B0.where(Y) are taken one after the other from a builder B0 whose text
\* held neither filter, with X # Y, then right after the second call str(B1)
\* contains X and not Y, str(B2) contains Y and not X, and str(B0) contains
\* neither.
C1_WhereSnapshotsIndependent ==
    \A i \in DOMAIN calls :
        LET j == i + 1
        IN  ( /\ j = Len(calls)
              /\ calls[i].op = "where" /\ calls[j].op = "where"
              /\ calls[i].self = calls[j].self
              /\ calls[i].arg # calls[j].arg
              /\ ~Contains(calls[i].before.text, calls[i].arg[1])
              /\ ~Contains(calls[i].before.text, calls[j].arg[1]) )
            => LET X == calls[i].arg[1]
                   Y == calls[j].arg[1]
                   B0 == Str(calls[i].self).text
                   B1 == Str(calls[i].ret).text
                   B2 == Str(calls[j].ret).text
               IN  /\ Contains(B1, X) /\ ~Contains(B1, Y)
                   /\ Contains(B2, Y) /\ ~Contains(B2, X)
                   /\ ~Contains(B0, X) /\ ~Contains(B0, Y)

CopyOnModifyOps == {"join", "order_by", "limit", "offset", "count", "columns"}

\* C2: copy-on-modify.  Right after a call B.op(...) with op one of join,
\* order_by, limit, offset, count, columns, the call has returned a builder
\* other than B, every field of B is what it was when the call began, and
\* str(B) is the text it was when the call began.
C2_CopyOnModify ==
    (calls # <<>> /\ LastCall.op \in CopyOnModifyOps)
    => /\ LastCall.ret # 0
       /\ LastCall.ret # LastCall.self
       /\ builders[LastCall.self] = LastCall.pre
       /\ Str(LastCall.self) = LastCall.before

\* C3: isolation of a returned snapshot.  A builder B1 returned by a call
\* renders to the text it had when it was returned for as long as no later
\* call is made on B1 itself, whatever calls are made on other builders.
C3_ReturnedSnapshotIsolated ==
    \A i \in DOMAIN calls :
        ( /\ calls[i].ret # 0
          /\ \A k \in DOMAIN calls : k > i => calls[k].self # calls[i].ret )
        => Str(calls[i].ret) = calls[i].after

\* C5: subquery() raises SelectClauseIsntValidSubquery, and returns no
\* fragment, on every builder that has an order clause, a limit (any n >= 0)
\* or an offset (any n >= 0) set.
C5_SubqueryRaisesWhenPaginated ==
    \A i \in DOMAIN calls :
        ( /\ calls[i].op = "subquery"
          /\ \/ calls[i].pre.order_bys # <<>>
             \/ ~IsNone(calls[i].pre.limit)
             \/ ~IsNone(calls[i].pre.offset) )
        => /\ calls[i].err = "SelectClauseIsntValidSubquery"
           /\ calls[i].frag = 0

\* the first identifier of the path is a relationship field of the model
RootedAt(model, path) ==
    /\ path # <<>>
    /\ HasAttr(model, path[1])
    /\ AttrOf(model, path[1]).kind = "Relationship"

\* C6: no error is deferred to render time.  A join() whose path does not
\* start with a relationship field of the builder's model raises in the
\* join() call, and str() of a builder never raises when no join() call
\* before it raised.
C6_NoErrorDeferredToRender ==
    \A i \in DOMAIN calls :
        /\ (calls[i].op = "join" /\ ~RootedAt(calls[i].pre.model, calls[i].arg))
           => calls[i].err # ""
        /\ ( /\ calls[i].op = "str"
             /\ \A k \in 1..(i - 1) : calls[k].op = "join" => calls[k].err = "" )
           => calls[i].err = ""

(***************************************************************************)
(* Two threads sharing builders (SpecThreads).                             *)
(***************************************************************************)
\* Two threads sharing builders.  A method is two steps, the assignment to
\* self and "return copy(self)"; another thread may run between them.

Done == [Idle EXCEPT !.at = "done"]

\* limit(): "self._limit = limit"
TLimitBegin(t, b, n) ==
    /\ pc[t].at = "idle"
    /\ builders' = SetLimit(builders, b, n)
    /\ pc' = [pc EXCEPT ![t] = [at |-> "copy", op |-> "limit", self |-> b,
                                arg |-> <<ToString(n)>>, pre |-> builders[b],
                                before |-> Str(b)]]
    /\ UNCHANGED <<registry, nodes, frags, calls, pbs, gets, instances>>

\* where(): "self._filters.append(expression)"
TWhereBegin(t, b, expression) ==
    /\ pc[t].at = "idle"
    /\ builders' = SetFilters(builders, b, expression)
    /\ pc' = [pc EXCEPT ![t] = [at |-> "copy", op |-> "where", self |-> b,
                                arg |-> <<expression>>, pre |-> builders[b],
                                before |-> Str(b)]]
    /\ UNCHANGED <<registry, nodes, frags, calls, pbs, gets, instances>>

\* "return copy(self)" of the method thread t is in
TReturn(t) ==
    /\ pc[t].at = "copy"
    /\ ReturnCopy(t, pc[t].op, pc[t].self, pc[t].arg, pc[t].pre,
                  pc[t].before, builders, nodes)
    /\ pc' = [pc EXCEPT ![t] = Done]
    /\ UNCHANGED <<registry, frags, pbs, gets, instances>>

NextThreads ==
    \E t \in Threads :
        \/ \E b \in DOMAIN builders : \E n \in LimitArgs : TLimitBegin(t, b, n)
        \/ \E b \in DOMAIN builders : \E e \in WhereArgs : TWhereBegin(t, b, e)
        \/ TReturn(t)

SpecThreads == Init /\ [][NextThreads]_vars

\* str() of the builder select() returned, before any call on it
OriginalText == BuilderStr(NewBuilder("Child", 1), <<RelationshipNode("")>>).text

\* C4: concurrent reuse of a base builder.  When two threads each call one
\* operation (limit(a) / limit(b), or where(X) / where(Y)) on the builder B0
\* that select() returned, with their steps interleaved in any order, the
\* snapshot returned to a thread renders as B0's original text plus that
\* thread's own change only.
C4_ConcurrentReuseOfBase ==
    \A i \in DOMAIN calls :
        (calls[i].thread # 0 /\ calls[i].self = 1)
        => /\ calls[i].op = "limit"
              => calls[i].after.text = OriginalText \o " LIMIT " \o calls[i].arg[1]
           /\ calls[i].op = "where"
              => calls[i].after.text = OriginalText \o " WHERE " \o calls[i].arg[1]

(***************************************************************************)
(* Attribute access on model classes and on paths (SpecPath).  `pbs` holds *)
(* the PathBuilder objects made so far; `gets` logs each access: the       *)
(* object it was made on (0: a model class), the path that object held,    *)
(* the item, and what came back.                                           *)
(***************************************************************************)
PathRoots == {"LinkedList", "GraphNode"}
PathItems == {"id", "value", "next", "list", "children", "bogus"}

\* S while another access may be made, nothing after MaxGets accesses
Gettable(S) == IF Len(gets) < MaxGets THEN S ELSE {}

\* What an access hands back: a new PathBuilder object, a ColumnPath's text,
\* or an exception
Got(on, pre, item, r) ==
    /\ pbs' = IF r.kind = "PathBuilder" THEN Append(pbs, r.pb) ELSE pbs
    /\ gets' = Append(gets,
            [on |-> on, pre |-> pre, item |-> item, kind |-> r.kind,
             err |-> r.err, text |-> r.text,
             ret |-> IF r.kind = "PathBuilder" THEN Len(pbs) + 1 ELSE 0])
    /\ UNCHANGED <<registry, builders, nodes, frags, calls, pc, instances>>

\* Model.item
ModelAccess(m, item) == Got(0, PathBuilder(m, <<>>), item, ModelGetattr(m, item))

\* path.item: PathBuilder.__getattr__
PathAccess(i, item) == Got(i, pbs[i], item, ExtendPath(pbs[i], item))

NextPath ==
    \/ \E m \in Gettable(PathRoots) : \E item \in PathItems : ModelAccess(m, item)
    \/ \E i \in Gettable(DOMAIN pbs) : \E item \in PathItems : PathAccess(i, item)

SpecPath == Init /\ [][NextPath]_vars

\* The attribute a class body declares under `item`, by the declarations alone
Declares(m, item) == \E k \in DOMAIN ClassAttrs(m) : ClassAttrs(m)[k].key = item
Declared(m, item) ==
    IF Declares(m, item)
    THEN ClassAttrs(m)[CHOOSE k \in DOMAIN ClassAttrs(m) : ClassAttrs(m)[k].key = item]
    ELSE NoAttr

RECURSIVE Reached(_, _)
\* The entity type at the end of a path of relationships from m
Reached(m, path) ==
    IF path = <<>> THEN m
    ELSE Reached(Declared(m, Head(path)).related_model, Tail(path))

RECURSIVE SchemaNames(_, _)
\* The schema names of the fields a path traverses from m, in traversal order
SchemaNames(m, path) ==
    IF path = <<>> THEN <<>>
    ELSE <<Declared(m, Head(path)).salesforce_name>>
         \o SchemaNames(Declared(m, Head(path)).related_model, Tail(path))

\* C7: an access of an identifier that the entity type at the end of the path
\* does not declare raises at that access (KeyError on a path, AttributeError
\* on a model class), hands back neither a longer path nor a column
\* reference, and leaves the path it was made on as it was.
C7_UndeclaredExtensionFails ==
    \A i \in DOMAIN gets :
        ~Declares(Reached(gets[i].pre.model, gets[i].pre.path), gets[i].item)
        => /\ gets[i].kind = "raised"
           /\ gets[i].err \in {"KeyError", "AttributeError"}
           /\ gets[i].ret = 0
           /\ gets[i].text = ""
           /\ gets[i].on # 0 => pbs[gets[i].on] = gets[i].pre

\* C7 witness: an undeclared identifier was accessed on a path of two
\* relationships and raised
C7_Witness ==
    \E i \in DOMAIN gets :
        /\ gets[i].on # 0
        /\ Len(gets[i].pre.path) = 2
        /\ gets[i].item = "bogus"
        /\ gets[i].err = "KeyError"

\* C9: the column reference that a column access hands back is the root's
\* schema name, the schema name of each relationship traversed, in order, and
\* the column's schema name, joined by '.'.
C9_ColumnPathIsDottedSchemaNames ==
    \A i \in DOMAIN gets :
        gets[i].kind = "ColumnPath"
        => gets[i].text =
               JoinStr(<<gets[i].pre.model>>
                       \o SchemaNames(gets[i].pre.model,
                                      gets[i].pre.path \o <<gets[i].item>>), ".")

\* C9 witness: the cyclic relationship LinkedList.next traversed twice, then
\* a column
C9_Witness ==
    \E i \in DOMAIN gets :
        /\ gets[i].pre = PathBuilder("LinkedList", <<"next", "next">>)
        /\ gets[i].item = "id"
        /\ gets[i].text = "LinkedList.Next.Next.Id"

(***************************************************************************)
(* One chain of calls, select(Child).op1(...).op2(...)..., each call made  *)
(* on the builder the call before it returned (SpecChain).                 *)
(***************************************************************************)
MaxChain == 4

ChainJoinArgs == {Chain("Child", <<"mom">>).pb}

\* The builder at the end of the chain, while the chain may still grow
Chained == IF Len(calls) < MaxChain THEN {Len(builders)} ELSE {}

NextChain ==
    \/ \E b \in Chained : \E p \in ChainJoinArgs : Join(b, p)
    \/ \E b \in Chained : \E e \in WhereArgs : Where(b, e)
    \/ \E b \in Chained : \E o \in OrderByArgs : OrderBy(b, o[1], o[2], o[3])
    \/ \E b \in Chained : \E n \in LimitArgs : Limit(b, n)
    \/ \E b \in Chained : \E n \in OffsetArgs : Offset(b, n)
    \/ \E b \in Chained : CountCall(b)
    \/ \E b \in Chained : \E cols \in ColumnsArgs : Columns(b, cols)
    \/ \E b \in Chained : Render(b)

SpecChain == Init /\ [][NextChain]_vars

\* The text the fixed clause order gives for the fields of builder `self`
ClauseOrderText(self, heap) ==
    "SELECT " \o JoinStr(GetColumns(self, heap).cols, ", ")
    \o " FROM " \o self.model
    \o (IF self.filters # <<>>
        THEN " WHERE " \o JoinStr(self.filters, " AND ") ELSE "")
    \o (IF self.order_bys # <<>>
        THEN " ORDER BY " \o JoinStr(self.order_bys, ", ") ELSE "")
    \o (IF self.limit # None THEN " LIMIT " \o ToString(self.limit[1]) ELSE "")
    \o (IF self.offset # None THEN " OFFSET " \o ToString(self.offset[1]) ELSE "")

\* C8: every builder renders as SELECT, its comma-joined output columns, FROM,
\* the entity's schema name, then WHERE and the AND-joined filters iff it has
\* filters, ORDER BY and the comma-joined order clauses iff it has order
\* clauses, LIMIT n iff a limit is set (n = 0 too), OFFSET n iff an offset is
\* set (n = 0 too), single spaces between them, in whatever order the calls
\* were made; and a str() call returns that text.
C8_RenderClauseOrder ==
    /\ \A b \in DOMAIN builders :
           Str(b) = [err |-> "", text |-> ClauseOrderText(builders[b], nodes)]
    /\ (calls # <<>> /\ LastCall.op = "str")
       => LastCall.after.text = ClauseOrderText(LastCall.pre, nodes)

\* C8 witness: offset(0), limit(0), order_by and where were called in that
\* order, the reverse of the clause order, and the builder they gave renders
\* with the four clauses in the clause order
C8_Witness ==
    /\ Len(calls) = 4
    /\ calls[1].op = "offset" /\ calls[1].arg = <<"0">>
    /\ calls[2].op = "limit" /\ calls[2].arg = <<"0">>
    /\ calls[3].op = "order_by"
    /\ calls[4].op = "where"
    /\ Str(calls[4].ret).text =
           "SELECT Child.Id, Child.Name FROM Child WHERE Child.Id = '123' "
           \o "ORDER BY Child.Name LIMIT 0 OFFSET 0"

(***************************************************************************)
(* Joins only: join() and str() on any builder made so far (SpecJoin).     *)
(***************************************************************************)
MaxJoins == 3

JoinPathArgs == {Chain("Child", <<"mom">>).pb,
                 Chain("Child", <<"mom", "mom">>).pb,
                 Chain("Child", <<"teacher", "students">>).pb}

Joinable == IF Len(calls) < MaxJoins THEN DOMAIN builders ELSE {}

NextJoin ==
    \/ \E b \in Joinable : \E p \in JoinPathArgs : Join(b, p)
    \/ \E b \in Joinable : Render(b)

SpecJoin == Init /\ [][NextJoin]_vars

\* no node holds an identifier twice among its children
NoRepeatedChild(heap) ==
    \A n \in DOMAIN heap :
        \A i, j \in DOMAIN heap[n].child_relationships :
            heap[n].child_relationships[i].key = heap[n].child_relationships[j].key
            => i = j

\* every node of `old` has in `new` the children it had, first and in order
KeepsSubtrees(old, new) ==
    \A n \in DOMAIN old :
        /\ Len(new[n].child_relationships) >= Len(old[n].child_relationships)
        /\ SubSeq(new[n].child_relationships, 1, Len(old[n].child_relationships))
               = old[n].child_relationships

\* C10: add_path is idempotent.  For the join graph G of every builder and
\* every path P, adding P to G a second time leaves the graph that adding P
\* once gave: no node gains or loses a child, no node holds an identifier
\* twice, every subtree of G is still there, and the builder renders the same
\* text; and a join(P) called on the builder that join(P) returned gives a
\* builder that renders as that one did.
C10_AddPathIdempotent ==
    /\ \A b \in DOMAIN builders : \A p \in JoinPathArgs :
           LET G == builders[b].graph
               once == AddPath(nodes, G, p.path)
               twice == AddPath(once, G, p.path)
           IN  /\ twice = once
               /\ NoRepeatedChild(once)
               /\ KeepsSubtrees(nodes, once)
               /\ BuilderStr(builders[b], twice) = BuilderStr(builders[b], once)
    /\ \A i \in DOMAIN calls : \A j \in DOMAIN calls :
           ( /\ j > i
             /\ calls[i].op = "join" /\ calls[j].op = "join"
             /\ calls[j].self = calls[i].ret
             /\ calls[j].arg = calls[i].arg
             /\ \A k \in (i + 1)..(j - 1) : calls[k].op = "str" )
           => calls[j].after = calls[i].after

\* C10 witness: join(Child.mom.mom) then join(Child.mom) twice in a row, the
\* second on the builder the first returned, which still renders the
\* Mom.Mom subtree
C10_Witness ==
    /\ Len(calls) = 3
    /\ calls[1].op = "join" /\ calls[1].arg = <<"mom", "mom">>
    /\ calls[2].op = "join" /\ calls[2].arg = <<"mom">>
    /\ calls[2].self = calls[1].ret
    /\ calls[3].op = "join" /\ calls[3].arg = <<"mom">>
    /\ calls[3].self = calls[2].ret
    /\ calls[3].after = calls[2].after
    /\ Contains(Str(calls[3].ret).text, "Child.Mom.Mom.Id")

(***************************************************************************)
(* Joins on select(School), each on the builder the call before it         *)
(* returned (SpecGraph): the root has two to-one and two to-many           *)
(* relationships, inserted in every order.                                 *)
(***************************************************************************)
MaxGraphJoins == 3

GraphJoinArgs == {Chain("School", <<"principal">>).pb,
                  Chain("School", <<"founder">>).pb,
                  Chain("School", <<"students">>).pb,
                  Chain("School", <<"teachers">>).pb,
                  Chain("School", <<"students", "mom">>).pb,
                  Chain("School", <<"principal", "students">>).pb}

InitGraph ==
    /\ registry = DeclaredTable
    /\ builders = <<NewBuilder("School", 1)>>
    /\ nodes = <<RelationshipNode("")>>
    /\ frags = <<>>
    /\ calls = <<>>
    /\ pbs = <<>>
    /\ gets = <<>>
    /\ pc = [t \in Threads |-> Idle]
    /\ instances = <<>>

\* The builder the last call returned, while another join may be made
Grown == IF Len(calls) < MaxGraphJoins THEN {Len(builders)} ELSE {}

NextGraph ==
    \/ \E b \in Grown : \E p \in GraphJoinArgs : Join(b, p)
    \/ \E b \in Grown : Render(b)

SpecGraph == InitGraph /\ [][NextGraph]_vars

\* The dotted schema names of a path of relationships from m
Dotted(m, path) == JoinStr(<<m>> \o SchemaNames(m, path), ".")

\* The to-many flag of the relationship `item` of the entity a path ends at
IsMany(m, path, item) == Declared(Reached(m, path), item).many

\* The path the compiler carries into the child `item` of a node it entered
\* with `path` from m: a fresh one from the related entity under a to-many
\* relationship, the extended one under a to-one relationship
CarriedModel(m, path, item) ==
    IF IsMany(m, path, item) THEN Declared(Reached(m, path), item).related_model ELSE m
CarriedPath(m, path, item) ==
    IF IsMany(m, path, item) THEN <<>> ELSE Append(path, item)

RECURSIVE ToOneBeforeToMany(_, _, _, _)
\* In the output compiled for `node`, entered with `path` from m, and for
\* every node below it: a column of a direct to-one child comes before the
\* subquery of a direct to-many child
ToOneBeforeToMany(heap, m, path, node) ==
    LET cs == heap[node].child_relationships
        L == RecursivelyCompileJoins(heap, PathBuilder(m, path), node).joins
        ColumnOf(item, i) == StartsWith(item, Dotted(m, Append(path, cs[i].key)) \o ".")
        SubqueryOf(item, j) ==
            /\ StartsWith(item, "(SELECT ")
            /\ EndsWith(item, " FROM " \o Dotted(m, Append(path, cs[j].key)) \o ")")
    IN  /\ \A i \in DOMAIN cs : \A j \in DOMAIN cs :
               (~IsMany(m, path, cs[i].key) /\ IsMany(m, path, cs[j].key))
               => \A a \in DOMAIN L : \A b \in DOMAIN L :
                      (ColumnOf(L[a], i) /\ SubqueryOf(L[b], j)) => a < b
        /\ \A i \in DOMAIN cs :
               ToOneBeforeToMany(heap, CarriedModel(m, path, cs[i].key),
                                 CarriedPath(m, path, cs[i].key), cs[i].node)

\* C11: at every node of every builder's join graph, the output the compiler
\* gives for the node has the columns of each direct to-one child before the
\* subquery of each direct to-many child, in whatever order the children
\* were inserted.
C11_ToOneColumnsBeforeSubqueries ==
    \A b \in DOMAIN builders :
        ToOneBeforeToMany(nodes, builders[b].model, <<>>, builders[b].graph)

\* C11 witness: the to-many students was joined before the to-one principal,
\* and the principal's column renders before the students subquery
C11_Witness ==
    /\ Len(calls) = 2
    /\ calls[1].arg = <<"students">>
    /\ calls[2].arg = <<"principal">>
    /\ Str(calls[2].ret).text =
           "SELECT School.Id, School.Principal.Id, "
           \o "(SELECT Child.Id, Child.Name FROM School.Students) FROM School"

RECURSIVE NetOrder(_, _, _, _, _)
RECURSIVE ToOneGroups(_, _, _, _, _)
RECURSIVE ToManySubqueries(_, _, _, _, _)

\* The column groups of the to-one children among cs, each group the net
\* order of the child: latest inserted child first when `reversed`, in
\* insertion order otherwise
ToOneGroups(heap, m, path, cs, reversed) ==
    IF cs = <<>> THEN <<>>
    ELSE LET c == Head(cs)
             group == IF IsMany(m, path, c.key) THEN <<>>
                      ELSE NetOrder(heap, m, Append(path, c.key), c.node, reversed)
             rest == ToOneGroups(heap, m, path, Tail(cs), reversed)
         IN  IF reversed THEN rest \o group ELSE group \o rest

\* The subqueries of the to-many children among cs, in insertion order
ToManySubqueries(heap, m, path, cs, reversed) ==
    IF cs = <<>> THEN <<>>
    ELSE LET c == Head(cs)
             related == Declared(Reached(m, path), c.key).related_model
             subquery ==
                 IF IsMany(m, path, c.key)
                 THEN <<"(SELECT "
                        \o JoinStr(NetOrder(heap, related, <<>>, c.node, reversed), ", ")
                        \o " FROM " \o Dotted(m, Append(path, c.key)) \o ")">>
                 ELSE <<>>
         IN  subquery \o ToManySubqueries(heap, m, path, Tail(cs), reversed)

\* A node's own default columns (none at the root), then the groups of its
\* to-one children, then the subqueries of its to-many children
NetOrder(heap, m, path, node, reversed) ==
    (IF heap[node].relationship = "" THEN <<>>
     ELSE GetLastModelColumnNodes(PathBuilder(m, path)).cols)
    \o ToOneGroups(heap, m, path, heap[node].child_relationships, reversed)
    \o ToManySubqueries(heap, m, path, heap[node].child_relationships, reversed)

\* C12, as the spec words it: the compiled output of a node is its own
\* default columns, then the column groups of its direct to-one children in
\* the order they were first inserted, then the subqueries of its direct
\* to-many children in the order they were first inserted.
C12_NetOrderToOneInInsertionOrder ==
    \A b \in DOMAIN builders :
        CompileJoins(builders[b], nodes).joins
            = NetOrder(nodes, builders[b].model, <<>>, builders[b].graph, FALSE)

\* C12, amended: the compiled output of a node is its own default columns,
\* then the column groups of its direct to-one children with the child
\* inserted last first (the reverse of insertion order), each group the
\* child's own default columns followed by what the child's children give,
\* then the subqueries of its direct to-many children in the order they were
\* first inserted.
C12_NetOrderToOneLatestFirst ==
    \A b \in DOMAIN builders :
        CompileJoins(builders[b], nodes).joins
            = NetOrder(nodes, builders[b].model, <<>>, builders[b].graph, TRUE)

\* C12 witness: principal, students, founder joined in that order render as
\* founder, principal, students
C12_Witness ==
    /\ Len(calls) = 3
    /\ calls[1].arg = <<"principal">>
    /\ calls[2].arg = <<"students">>
    /\ calls[3].arg = <<"founder">>
    /\ Str(calls[3].ret).text =
           "SELECT School.Id, School.Founder.Age, School.Founder.Id, "
           \o "School.Founder.Name, School.Principal.Id, "
           \o "(SELECT Child.Id, Child.Name FROM School.Students) FROM School"

\* item is a flat column under the child `key` of the node entered with path
IsColumnUnder(item, m, path, key) ==
    StartsWith(item, Dotted(m, Append(path, key)) \o ".")

RECURSIVE ToOneSiblingsLatestFirst(_, _, _, _)
\* In the output compiled for `node`, entered with `path` from m, and for
\* every node below it: the node's own default columns come first (none at
\* the root), and of two to-one children the columns of the one inserted
\* later come before the columns of the one inserted earlier
ToOneSiblingsLatestFirst(heap, m, path, node) ==
    LET cs == heap[node].child_relationships
        L == RecursivelyCompileJoins(heap, PathBuilder(m, path), node).joins
        own == IF heap[node].relationship = "" THEN <<>>
               ELSE GetLastModelColumnNodes(PathBuilder(m, path)).cols
    IN  /\ SubSeq(L, 1, Len(own)) = own
        /\ \A i \in DOMAIN cs : \A j \in DOMAIN cs :
               (i < j /\ ~IsMany(m, path, cs[i].key) /\ ~IsMany(m, path, cs[j].key))
               => /\ \E a \in DOMAIN L : IsColumnUnder(L[a], m, path, cs[i].key)
                  /\ \E b \in DOMAIN L : IsColumnUnder(L[b], m, path, cs[j].key)
                  /\ \A a \in DOMAIN L : \A b \in DOMAIN L :
                         (IsColumnUnder(L[a], m, path, cs[i].key)
                          /\ IsColumnUnder(L[b], m, path, cs[j].key))
                         => /\ b < a
                            /\ Len(own) < b
        /\ \A i \in DOMAIN cs :
               ToOneSiblingsLatestFirst(heap, CarriedModel(m, path, cs[i].key),
                                        CarriedPath(m, path, cs[i].key), cs[i].node)

\* the first call of the chain that joined a path starting with `key`
FirstJoined(key) ==
    CHOOSE k \in DOMAIN calls :
        /\ calls[k].op = "join" /\ calls[k].arg # <<>> /\ calls[k].arg[1] = key
        /\ \A j \in 1..(k - 1) :
               ~(calls[j].op = "join" /\ calls[j].arg # <<>> /\ calls[j].arg[1] = key)

JoinedKeys == {calls[k].arg[1] : k \in {j \in DOMAIN calls : calls[j].op = "join"}}

\* C27: when two to-one relationships A then B are joined, in that order,
\* under the same parent node, the compiled output lists B's columns before
\* A's columns, after the parent's own default columns: at every node of
\* every builder's join graph, and at the root of the builder the chain has
\* reached for the relationships in the order the join calls named them.
C27_ToOneSiblingsReversed ==
    /\ \A b \in DOMAIN builders :
           ToOneSiblingsLatestFirst(nodes, builders[b].model, <<>>, builders[b].graph)
    /\ \A A \in JoinedKeys : \A B \in JoinedKeys :
           (FirstJoined(A) < FirstJoined(B)
            /\ ~IsMany(builders[1].model, <<>>, A) /\ ~IsMany(builders[1].model, <<>>, B))
           => LET last == builders[Len(builders)]
                  L == GetColumns(last, nodes).cols
                  own == last.columns
              IN  /\ SubSeq(L, 1, Len(own)) = own
                  /\ \A a \in DOMAIN L : \A b \in DOMAIN L :
                         (IsColumnUnder(L[a], last.model, <<>>, A)
                          /\ IsColumnUnder(L[b], last.model, <<>>, B))
                         => b < a /\ Len(own) < b

\* C27 witness: principal then founder were joined; the founder's columns
\* come before the principal's, after School.Id
C27_Witness ==
    /\ Len(calls) = 2
    /\ calls[1].arg = <<"principal">>
    /\ calls[2].arg = <<"founder">>
    /\ calls[2].after.text =
           "SELECT School.Id, School.Founder.Age, School.Founder.Id, "
           \o "School.Founder.Name, School.Principal.Id FROM School"

RECURSIVE FlatBeforeSubqueries(_, _, _, _)
\* In the output compiled for `node`, entered with `path` from m, and for
\* every node below it: every flat column comes before every subquery
FlatBeforeSubqueries(heap, m, path, node) ==
    LET cs == heap[node].child_relationships
        L == RecursivelyCompileJoins(heap, PathBuilder(m, path), node).joins
    IN  /\ \A a \in DOMAIN L : \A b \in DOMAIN L :
               (~StartsWith(L[a], "(SELECT ") /\ StartsWith(L[b], "(SELECT "))
               => a < b
        /\ \A i \in DOMAIN cs :
               FlatBeforeSubqueries(heap, CarriedModel(m, path, cs[i].key),
                                    CarriedPath(m, path, cs[i].key), cs[i].node)

\* C28: in the compiled join output list of any join graph node, every flat
\* column node precedes every subquery node, also when a to-one child whose
\* own subtree contains a to-many relationship is joined after another to-one
\* sibling.
C28_FlatColumnsBeforeSubqueries ==
    \A b \in DOMAIN builders :
        FlatBeforeSubqueries(nodes, builders[b].model, <<>>, builders[b].graph)

\* text is "(SELECT ..." and ends with "FROM <target>)"
IsSubqueryFrom(text, target) ==
    StartsWith(text, "(SELECT ") /\ EndsWith(text, " FROM " \o target \o ")")

\* G lies in L as one block
IsBlockOf(G, L) ==
    \E k \in 0..(Len(L) - Len(G)) : SubSeq(L, k + 1, k + Len(G)) = G

RECURSIVE JoinsCompiledByKind(_, _, _, _)
\* In the output compiled for `node`, entered with `path` from m, and for
\* every node below it: each to-many child gives one subquery, FROM the
\* dotted outer path, over the related entity's default columns and joins
\* with paths from the related entity; each to-one child gives a block of
\* columns under the extended outer path
JoinsCompiledByKind(heap, m, path, node) ==
    LET cs == heap[node].child_relationships
        L == RecursivelyCompileJoins(heap, PathBuilder(m, path), node).joins
    IN  \A i \in DOMAIN cs :
            LET outer == Dotted(m, Append(path, cs[i].key))
                related == Declared(Reached(m, path), cs[i].key).related_model
                inner == RecursivelyCompileJoins(
                             heap, PathBuilder(related, <<>>), cs[i].node).joins
                defaults == GetLastModelColumnNodes(PathBuilder(related, <<>>)).cols
                flat == RecursivelyCompileJoins(
                            heap, PathBuilder(m, Append(path, cs[i].key)), cs[i].node).joins
            IN  /\ IsMany(m, path, cs[i].key)
                   => /\ Cardinality({a \in DOMAIN L : IsSubqueryFrom(L[a], outer)}) = 1
                      /\ \E a \in DOMAIN L :
                             L[a] = "(SELECT " \o JoinStr(inner, ", ")
                                    \o " FROM " \o outer \o ")"
                      /\ SubSeq(inner, 1, Len(defaults)) = defaults
                      /\ \A x \in DOMAIN inner :
                             /\ ~StartsWith(inner[x], outer)
                             /\ \/ StartsWith(inner[x], related \o ".")
                                \/ StartsWith(inner[x], "(SELECT " \o related \o ".")
                /\ ~IsMany(m, path, cs[i].key)
                   => /\ flat # <<>>
                      /\ IsBlockOf(flat, L)
                      /\ \A x \in DOMAIN flat :
                             \/ StartsWith(flat[x], outer \o ".")
                             \/ /\ StartsWith(flat[x], "(SELECT ")
                                /\ Contains(flat[x], " FROM " \o outer \o ".")
                                /\ EndsWith(flat[x], ")")
                /\ JoinsCompiledByKind(heap, CarriedModel(m, path, cs[i].key),
                                       CarriedPath(m, path, cs[i].key), cs[i].node)

\* C13: at every node of every builder's join graph, a to-many child gives
\* exactly one parenthesised subquery whose FROM target is the dotted
\* relationship path from the outer root and whose select list is the related
\* entity's default columns and nested joins, with paths starting at the
\* related entity; a to-one child gives flat columns under the extended outer
\* path.
C13_ToManySubqueryToOneFlat ==
    \A b \in DOMAIN builders :
        JoinsCompiledByKind(nodes, builders[b].model, <<>>, builders[b].graph)

\* C13 witness: students.mom and principal were joined; the rendered text has
\* the principal's flat column and one students subquery rooted at Child
C13_Witness ==
    /\ Len(calls) = 3
    /\ calls[1].arg = <<"students", "mom">>
    /\ calls[2].arg = <<"principal">>
    /\ calls[3].op = "str"
    /\ calls[3].after.text =
           "SELECT School.Id, School.Principal.Id, "
           \o "(SELECT Child.Id, Child.Name, Child.Mom.Age, Child.Mom.Id, "
           \o "Child.Mom.Name FROM School.Students) FROM School"

(***************************************************************************)
(* Class declarations.  A class statement runs _ModelMeta.__new__ on the   *)
(* attributes of its body, in the order the body gives them; select(model) *)
(* then takes the default columns of the class.                            *)
(***************************************************************************)
MaxSchemaCalls == 3

ClassNames == {"Account", "Contact"}

\* The attributes a class body is drawn from: three columns, the key order of
\* which differs from the order of their Salesforce names, and a relationship
BodyFields ==
    {Column("id", "Id"), Column("name", "Name"),
     Column("zip", "BillingPostalCode"),
     Relationship("owner", "Owner", "Parent", FALSE)}

\* Every declaration order of the attributes
Bodies ==
    {body \in [1..Cardinality(BodyFields) -> BodyFields] :
         \A i, j \in DOMAIN body : body[i] = body[j] => i = j}

\* class name(Model): body
Declare(name, body) ==
    /\ name \notin DOMAIN registry
    /\ registry' = registry @@ (name :> ModelMetaNew(body))
    /\ calls' = Append(calls,
           [thread |-> 0, op |-> "class", self |-> name, arg |-> body,
            ret |-> 0, frag |-> 0, err |-> "",
            pre |-> NoBuilder, before |-> NoText, after |-> NoText])
    /\ UNCHANGED <<builders, nodes, frags, pbs, gets, pc, instances>>

\* select(model)
Select(m) ==
    /\ builders' = Append(builders, NewBuilder(m, Len(nodes) + 1))
    /\ nodes' = Append(nodes, RelationshipNode(""))
    /\ calls' = Append(calls,
           [thread |-> 0, op |-> "select", self |-> m, arg |-> <<>>,
            ret |-> Len(builders) + 1, frag |-> 0, err |-> "",
            pre |-> NoBuilder, before |-> NoText, after |-> NoText])
    /\ UNCHANGED <<registry, frags, pbs, gets, pc, instances>>

InitSchema ==
    /\ registry = DeclaredTable
    /\ builders = <<>>
    /\ nodes = <<>>
    /\ frags = <<>>
    /\ calls = <<>>
    /\ pbs = <<>>
    /\ gets = <<>>
    /\ pc = [t \in Threads |-> Idle]
    /\ instances = <<>>

Declarable == IF Len(calls) < MaxSchemaCalls THEN ClassNames ELSE {}
Selectable == IF Len(calls) < MaxSchemaCalls THEN ClassNames \cap DOMAIN registry ELSE {}
Renderable == IF Len(calls) < MaxSchemaCalls THEN DOMAIN builders ELSE {}

NextSchema ==
    \/ \E name \in Declarable : \E body \in Bodies : Declare(name, body)
    \/ \E m \in Selectable : Select(m)
    \/ \E b \in Renderable : Render(b)

SpecSchema == InitSchema /\ [][NextSchema]_vars

\* The body the class m was declared with, in declaration order
DeclaredBody(m) ==
    calls[CHOOSE i \in DOMAIN calls : calls[i].op = "class" /\ calls[i].self = m].arg

ColumnFields(body) == SelectSeq(body, LAMBDA a : a.kind = "Column")

\* `columns` is one reference per field of `fields`, taken in the order p
ListedInOrder(m, columns, fields, p) ==
    /\ Len(columns) = Len(fields)
    /\ \A i \in DOMAIN columns :
           columns[i] = m \o "." \o fields[p[i]].salesforce_name

\* The orders of 1..n
Orders(n) == {p \in [1..n -> 1..n] : \A i, j \in 1..n : p[i] = p[j] => i = j}

MaxSubCalls == 3

InOps == {"IN", "NOT IN"}

\* The operands of in_ that are no node
ListArgs == {PyList(<<PyInt(1), PyStr("a")>>)}

\* builder.where(Child.name.in_(fragment)): the expression stringifies the
\* fragment when it is built
WhereIn(b, f, op) ==
    LET expression == IF op = "IN" THEN In(PyNode(ChildName), PyNode(FragStr(f)))
                      ELSE NotIn(PyNode(ChildName), PyNode(FragStr(f)))
        bs == SetFilters(builders, b, expression)
        ns2 == CopyNode(nodes, bs[b].graph)
        bs2 == Append(bs, CopyBuilder(bs[b], Len(ns2)))
    IN  /\ builders' = bs2
        /\ nodes' = ns2
        /\ calls' = Append(calls,
                [thread |-> 0, op |-> "where", self |-> b, arg |-> <<expression>>,
                 ret |-> Len(bs2), frag |-> f, err |-> "",
                 pre |-> builders[b], before |-> Str(b),
                 after |-> BuilderStr(bs2[Len(bs2)], ns2)])
        /\ UNCHANGED <<registry, frags, pbs, gets, pc, instances>>

\* builder.where(Child.name.in_([1, 'a']))
WhereInList(b, items) ==
    Where(b, In(PyNode(ChildName), items))

SubChained == IF Len(calls) < MaxSubCalls THEN {Len(builders)} ELSE {}

NextSubquery ==
    \/ \E b \in SubChained : \E p \in ChainJoinArgs : Join(b, p)
    \/ \E b \in SubChained : Where(b, FilterX)
    \/ \E b \in SubChained : OrderBy(b, ChildName, "", "")
    \/ \E b \in SubChained : Limit(b, 10)
    \/ \E b \in SubChained : CountCall(b)
    \/ \E b \in SubChained : Subquery(b)
    \/ \E b \in SubChained : \E f \in DOMAIN frags : \E op \in InOps : WhereIn(b, f, op)
    \/ \E b \in SubChained : \E items \in ListArgs : WhereInList(b, items)

SpecSubquery == Init /\ [][NextSubquery]_vars

\* The builder has no ordering, no limit and no offset
Unpaginated(self) ==
    self.order_bys = <<>> /\ self.limit = None /\ self.offset = None

\* '(' SELECT columns FROM entity [WHERE filters joined by AND] ')'
SubqueryText(columns, entity, filters) ==
    "(SELECT " \o JoinStr(columns, ", ") \o " FROM " \o entity
    \o (IF filters = <<>> THEN "" ELSE " WHERE " \o JoinStr(filters, " AND "))
    \o ")"

\* str(fragment) where the fragments are fs and the builders are bs
FragTextIn(fs, bs, f) ==
    Grouped(SelectClause(
        fs[f].select_columns, fs[f].from_table,
        IF fs[f].has_where THEN bs[fs[f].filters_of].filters ELSE <<>>,
        <<>>, None, None))

\* C15: a step that calls subquery() on a builder with no ordering, no limit
\* and no offset returns a fragment that renders as '(' SELECT, the output
\* columns, FROM, the entity's schema name, WHERE and the AND-joined filters
\* when there are filters, ')' , with no ORDER BY, LIMIT or OFFSET; a step
\* that passes a fragment to in_ / not_in_ puts the fragment's text after
\* the operator as it is, with no second pair of parentheses.
C15_SubqueryRendering ==
    [][LET c == calls'[Len(calls')]
       IN  Len(calls') = Len(calls) + 1
           => /\ (c.op = "subquery" /\ Unpaginated(builders[c.self]))
                 => /\ c.err = ""
                    /\ c.frag = Len(frags) + 1
                    /\ FragTextIn(frags', builders', c.frag) =
                           SubqueryText(GetColumns(builders[c.self], nodes).cols,
                                        SoqlName(builders[c.self].model),
                                        builders[c.self].filters)
                    /\ Contains(FragTextIn(frags', builders', c.frag), " WHERE ")
                           <=> builders[c.self].filters # <<>>
                    /\ ~Contains(FragTextIn(frags', builders', c.frag), "ORDER BY")
                    /\ ~Contains(FragTextIn(frags', builders', c.frag), "LIMIT")
                    /\ ~Contains(FragTextIn(frags', builders', c.frag), "OFFSET")
              /\ (c.op = "where" /\ c.frag # 0)
                 => /\ \E op \in InOps :
                           c.arg = <<ChildName \o " " \o op \o " " \o FragStr(c.frag)>>
                    /\ StartsWith(FragStr(c.frag), "(SELECT ")
                    /\ ~StartsWith(FragStr(c.frag), "((")
                    /\ Contains(c.after.text, c.arg[1])
                    /\ ~Contains(c.after.text, "((")
      ]_vars

\* C15 witness: a filtered builder's subquery was the operand of in_, and
\* the rendered filter holds the subquery text once parenthesised
C15_Witness ==
    /\ Len(calls) = 3
    /\ calls[1].op = "where"
    /\ calls[2].op = "subquery"
    /\ calls[2].err = ""
    /\ calls[3].op = "where"
    /\ calls[3].frag = 1
    /\ calls[3].after.text =
           "SELECT Child.Id, Child.Name FROM Child WHERE Child.Id = '123' "
           \o "AND Child.Name IN (SELECT Child.Id, Child.Name FROM Child "
           \o "WHERE Child.Id = '123')"

(***************************************************************************)
(* Chains of calls on the latest builder, over two smaller sets of calls:  *)
(* those that choose the output columns, and those that fill the clauses   *)
(* after FROM.                                                             *)
(***************************************************************************)
MaxColumnCalls == 4
MaxClauseCalls == 4

ColumnListArgs == {<<ChildName, ChildId>>, <<ChildName>>}
ColumnJoinArgs == {Chain("Child", <<"mom">>).pb,
                   Chain("Child", <<"teacher", "students">>).pb}

ColumnChained == IF Len(calls) < MaxColumnCalls THEN {Len(builders)} ELSE {}

NextColumns ==
    \/ \E b \in ColumnChained : \E cols \in ColumnListArgs : Columns(b, cols)
    \/ \E b \in ColumnChained : \E p \in ColumnJoinArgs : Join(b, p)
    \/ \E b \in ColumnChained : Where(b, FilterX)
    \/ \E b \in ColumnChained : OrderBy(b, ChildName, "", "")
    \/ \E b \in ColumnChained : Limit(b, 10)
    \/ \E b \in ColumnChained : CountCall(b)

SpecColumns == Init /\ [][NextColumns]_vars

ClauseChained == IF Len(calls) < MaxClauseCalls THEN {Len(builders)} ELSE {}

NextClauses ==
    \/ \E b \in ClauseChained : \E e \in WhereArgs : Where(b, e)
    \/ \E b \in ClauseChained : \E o \in OrderByArgs : OrderBy(b, o[1], o[2], o[3])
    \/ \E b \in ClauseChained : \E n \in LimitArgs : Limit(b, n)
    \/ \E b \in ClauseChained : \E n \in OffsetArgs : Offset(b, n)

SpecClauses == Init /\ [][NextClauses]_vars

\* WHERE, ORDER BY, LIMIT and OFFSET of a builder, as they follow FROM
ClauseTail(self) ==
    (IF self.filters # <<>>
     THEN " WHERE " \o JoinStr(self.filters, " AND ") ELSE "")
    \o (IF self.order_bys # <<>>
        THEN " ORDER BY " \o JoinStr(self.order_bys, ", ") ELSE "")
    \o (IF self.limit # None THEN " LIMIT " \o ToString(self.limit[1]) ELSE "")
    \o (IF self.offset # None THEN " OFFSET " \o ToString(self.offset[1]) ELSE "")

\* C16: the builder a count() call returns renders COUNT() as its whole
\* column list, whatever columns and joins the chain had before the call,
\* and still renders the filters, order clauses, limit and offset the chain
\* had.
C16_CountReplacesColumns ==
    \A i \in DOMAIN calls :
        calls[i].op = "count"
        => /\ calls[i].after.text =
                  "SELECT COUNT() FROM " \o calls[i].pre.model
                  \o ClauseTail(calls[i].pre)
           /\ \A c \in {ChildId, ChildName, "Child.Mom.Id"} :
                  Contains(calls[i].after.text, c)
                  => Contains(ClauseTail(calls[i].pre), c)

\* C16 witness: columns, join and where were called before count, and the
\* counted builder renders COUNT() and the filter
C16_Witness ==
    /\ Len(calls) = 4
    /\ calls[1].op = "columns"
    /\ calls[2].op = "join"
    /\ calls[3].op = "where"
    /\ calls[4].op = "count"
    /\ calls[4].after.text = "SELECT COUNT() FROM Child WHERE Child.Id = '123'"

\* The arguments of the calls of `op` among the first n calls, in call order
ArgsOf(op, n) ==
    LET made == SelectSeq(SubSeq(calls, 1, n), LAMBDA c : c.op = op)
    IN  [k \in DOMAIN made |-> made[k].arg]

\* How many times `sub` occurs in `text`
Occurrences(text, sub) ==
    Cardinality({k \in 1..(Len(text) - Len(sub) + 1) :
                     SubSeq(text, k, k + Len(sub) - 1) = sub})

\* `text` has the clause LIMIT n / OFFSET n, once
HasLimit(text, n) ==
    /\ Occurrences(text, " LIMIT ") = 1
    /\ EndsWith(text, " LIMIT " \o n) \/ Contains(text, " LIMIT " \o n \o " OFFSET ")
HasOffset(text, n) ==
    /\ Occurrences(text, " OFFSET ") = 1
    /\ EndsWith(text, " OFFSET " \o n)

\* The LIMIT / OFFSET clause of `text`: <<>> when it has none
LimitOf(text) ==
    IF Occurrences(text, " LIMIT ") = 0 THEN <<>>
    ELSE <<CHOOSE n \in {ToString(v) : v \in LimitArgs} : HasLimit(text, n)>>
OffsetOf(text) ==
    IF Occurrences(text, " OFFSET ") = 0 THEN <<>>
    ELSE <<CHOOSE n \in {ToString(v) : v \in OffsetArgs} : HasOffset(text, n)>>

\* C18: the builder a call of the chain returns renders one LIMIT clause with
\* the value of the chain's last limit call when the chain has limit calls,
\* and one OFFSET clause with the value of its last offset call when it has
\* offset calls; a limit call leaves the OFFSET clause as it was and an offset
\* call leaves the LIMIT clause as it was.
C18_LimitOffsetOverwrite ==
    \A i \in DOMAIN calls :
        calls[i].op # "str"
        => LET text == calls[i].after.text
               limits == ArgsOf("limit", i)
               offsets == ArgsOf("offset", i)
           IN  /\ limits # <<>> => HasLimit(text, limits[Len(limits)][1])
               /\ offsets # <<>> => HasOffset(text, offsets[Len(offsets)][1])
               /\ calls[i].op = "limit"
                  => OffsetOf(text) = OffsetOf(calls[i].before.text)
               /\ calls[i].op = "offset"
                  => LimitOf(text) = LimitOf(calls[i].before.text)

\* C18 witness: limit(10), offset(10), limit(0), offset(0) were called, and
\* the last builder renders LIMIT 0 OFFSET 0
C18_Witness ==
    /\ Len(calls) = 4
    /\ calls[1].op = "limit" /\ calls[1].arg = <<"10">>
    /\ calls[2].op = "offset" /\ calls[2].arg = <<"10">>
    /\ calls[3].op = "limit" /\ calls[3].arg = <<"0">>
    /\ calls[4].op = "offset" /\ calls[4].arg = <<"0">>
    /\ calls[3].after.text = "SELECT Child.Id, Child.Name FROM Child LIMIT 0 OFFSET 10"
    /\ calls[4].after.text = "SELECT Child.Id, Child.Name FROM Child LIMIT 0 OFFSET 0"

\* The WHERE clause of the where calls among the first n calls
WherePart(n) ==
    LET wheres == ArgsOf("where", n)
    IN  IF wheres = <<>> THEN ""
        ELSE " WHERE " \o JoinStr([k \in DOMAIN wheres |-> wheres[k][1]], " AND ")

\* An order_by call's clause: the column, then the direction and the nulls
\* position when they were given
OrderText(arg) ==
    arg[1] \o (IF arg[2] # "" THEN " " \o arg[2] ELSE "")
    \o (IF arg[3] # "" THEN " " \o arg[3] ELSE "")

\* The ORDER BY clause of the order_by calls among the first n calls
OrderPart(n) ==
    LET orders == ArgsOf("order_by", n)
    IN  IF orders = <<>> THEN ""
        ELSE " ORDER BY " \o JoinStr([k \in DOMAIN orders |-> OrderText(orders[k])], ", ")

\* The LIMIT and OFFSET clauses that end `text`
PagePart(text) ==
    (IF LimitOf(text) = <<>> THEN "" ELSE " LIMIT " \o LimitOf(text)[1])
    \o (IF OffsetOf(text) = <<>> THEN "" ELSE " OFFSET " \o OffsetOf(text)[1])

\* C19: the builder a call of the chain returns renders, after FROM and the
\* entity, one WHERE clause with the expressions of the chain's where calls
\* in call order joined by ' AND ', each as it was given and as many times
\* as it was given, then one ORDER BY clause with the clauses of the chain's
\* order_by calls in call order joined by ', ', each the column followed by
\* the direction and the nulls position when they were given; no WHERE
\* without where calls, no ORDER BY without order_by calls.
C19_FiltersAndOrdersAccumulate ==
    \A i \in DOMAIN calls :
        calls[i].op # "str"
        => LET text == calls[i].after.text
           IN  /\ EndsWith(text, " FROM " \o calls[i].pre.model
                                 \o WherePart(i) \o OrderPart(i) \o PagePart(text))
               /\ Occurrences(text, " WHERE ") =
                      (IF ArgsOf("where", i) = <<>> THEN 0 ELSE 1)
               /\ Occurrences(text, " AND ") =
                      (IF ArgsOf("where", i) = <<>> THEN 0
                       ELSE Len(ArgsOf("where", i)) - 1)
               /\ Occurrences(text, " ORDER BY ") =
                      (IF ArgsOf("order_by", i) = <<>> THEN 0 ELSE 1)

\* C19 witness: the same filter was given twice and two order clauses, one
\* bare and one with direction and nulls position, and all four render
C19_Witness ==
    /\ Len(calls) = 4
    /\ calls[1].op = "where"
    /\ calls[2].op = "where"
    /\ calls[3].arg = <<ChildName, "", "">>
    /\ calls[4].arg = <<ChildId, "DESC", "NULLS LAST">>
    /\ calls[4].after.text =
           "SELECT Child.Id, Child.Name FROM Child "
           \o "WHERE Child.Id = '123' AND Child.Id = '123' "
           \o "ORDER BY Child.Name, Child.Id DESC NULLS LAST"

\* The column groups the joins of the chain's first n calls must give: one
\* per joined relationship
JoinedColumns(n) ==
    LET joined == ArgsOf("join", n)
    IN  {g \in {<<"Child.Mom.Age", "Child.Mom.Id", "Child.Mom.Name">>,
                <<"Child.Teacher.Id",
                  "(SELECT Child.Id, Child.Name FROM Child.Teacher.Students)">>} :
            \E k \in DOMAIN joined :
                \/ joined[k] = <<"mom">> /\ g[1] = "Child.Mom.Age"
                \/ joined[k] = <<"teacher", "students">> /\ g[1] = "Child.Teacher.Id"}

\* C17: once the chain has a columns call, and while it has no count call,
\* the builder the last call returned renders as its column list the columns
\* of the chain's last columns call, in the order given, and then the
\* compiled output of the joins; a default column of the entity is in the
\* list only where the call listed it; the columns of every join of the
\* chain are in the list after the given columns, whether the join came
\* before or after the columns call.
C17_ColumnsOverrideDefaults ==
    (/\ calls # <<>>
     /\ ArgsOf("columns", Len(calls)) # <<>>
     /\ ArgsOf("count", Len(calls)) = <<>>)
    => LET given == ArgsOf("columns", Len(calls))
           cols == given[Len(given)]
           self == builders[LastCall.ret]
           L == cols \o CompileJoins(self, nodes).joins
       IN  /\ LastCall.after.text =
                  "SELECT " \o JoinStr(L, ", ") \o " FROM " \o self.model
                  \o ClauseTail(self)
           /\ \A k \in DOMAIN L :
                  L[k] \in {ChildId, ChildName} => k <= Len(cols)
           /\ \A g \in JoinedColumns(Len(calls)) :
                  \E k \in Len(cols)..(Len(L) - Len(g)) :
                      SubSeq(L, k + 1, k + Len(g)) = g

\* C17 witness: join(mom), columns(name, id), join(teacher.students): the
\* list is name, id and then the columns of both joins
C17_Witness ==
    /\ Len(calls) = 3
    /\ calls[1].op = "join"
    /\ calls[2].op = "columns"
    /\ calls[2].arg = <<ChildName, ChildId>>
    /\ calls[3].op = "join"
    /\ calls[3].after.text =
           "SELECT Child.Name, Child.Id, Child.Teacher.Id, "
           \o "(SELECT Child.Id, Child.Name FROM Child.Teacher.Students), "
           \o "Child.Mom.Age, Child.Mom.Id, Child.Mom.Name FROM Child"

(***************************************************************************)
(* Logical combinators.  and_, or_ and not_ are functions of their         *)
(* operands; `calls` holds the call of the run and what it returned.       *)
(***************************************************************************)
MaxOperands == 3

MonkeyTail == "Monkey.Tail"
TailIsR == Expression(PyNode(MonkeyTail), "=", PyStr("R"))
TailBelowTen == Expression(PyNode(MonkeyTail), "<", PyInt(10))

\* The operands: two comparisons, and combinations of them
LogicOperands ==
    {PyNode(TailIsR), PyNode(TailBelowTen),
     PyNode(And(<<PyNode(TailIsR), PyNode(TailBelowTen)>>).text),
     PyNode(Or(<<PyNode(TailBelowTen), PyNode(TailIsR)>>).text),
     PyNode(Not(PyNode(TailIsR)).text),
     PyNode(And(<<PyNode(TailIsR),
                  PyNode(Or(<<PyNode(TailBelowTen), PyNode(TailIsR)>>).text)>>).text)}

OperandLists == UNION {[1..n -> LogicOperands] : n \in 1..MaxOperands}

\* The one call of a run, `op` of `operands`, returned or raised `result`
Returned(op, operands, result) ==
    /\ calls = <<>>
    /\ calls' = <<[thread |-> 0, op |-> op, self |-> 0,
                   arg |-> [k \in DOMAIN operands |-> operands[k].v],
                   ret |-> 0, frag |-> 0, err |-> result.err,
                   pre |-> NoBuilder, before |-> NoText, after |-> result]>>
    /\ UNCHANGED <<registry, builders, nodes, frags, pbs, gets, pc, instances>>

AndCall(operands) == Returned("and_", operands, And(operands))
OrCall(operands) == Returned("or_", operands, Or(operands))
NotCall(operand) == Returned("not_", <<operand>>, Not(operand))

NextLogic ==
    \/ \E operands \in OperandLists : AndCall(operands)
    \/ \E operands \in OperandLists : OrCall(operands)
    \/ \E operand \in LogicOperands : NotCall(operand)

SpecLogic == Init /\ [][NextLogic]_vars

RECURSIVE TotalOccurrences(_, _)
\* How many times `sub` occurs in the texts of `operands` together
TotalOccurrences(operands, sub) ==
    IF operands = <<>> THEN 0
    ELSE Occurrences(Head(operands), sub) + TotalOccurrences(Tail(operands), sub)

\* C20: and_ (or_) of two or more expressions returns '(' , the expressions
\* in the given order joined by ' AND ' (' OR '), ')': one pair of
\* parentheses more than the operands have, every operand as it is, its own
\* parentheses included; not_ of an expression returns 'NOT ' and the
\* expression.
C20_LogicalCombinators ==
    calls # <<>>
    => LET c == LastCall
           word == IF c.op = "and_" THEN " AND " ELSE " OR "
       IN  /\ (c.op \in {"and_", "or_"} /\ Len(c.arg) >= 2)
              => /\ c.err = ""
                 /\ c.after.text = "(" \o JoinStr(c.arg, word) \o ")"
                 /\ Occurrences(c.after.text, "(") = 1 + TotalOccurrences(c.arg, "(")
                 /\ Occurrences(c.after.text, ")") = 1 + TotalOccurrences(c.arg, ")")
                 /\ \A k \in DOMAIN c.arg : Contains(c.after.text, c.arg[k])
           /\ c.op = "not_"
              => /\ c.err = ""
                 /\ c.after.text = "NOT " \o c.arg[1]

\* C20 witness: and_ of a comparison, an or_ result and a comparison keeps
\* the order and the inner parentheses
C20_Witness ==
    /\ calls # <<>>
    /\ LastCall.op = "and_"
    /\ Len(LastCall.arg) = 3
    /\ LastCall.after.text =
           "(Monkey.Tail = 'R' AND (Monkey.Tail < 10 OR Monkey.Tail = 'R') "
           \o "AND Monkey.Tail < 10)"

(***************************************************************************)
(* Late-bound relationship targets.  Foo and Bar name each other; they are *)
(* declared in either order, and paths are extended, joined and rendered   *)
(* before and after the declarations.                                      *)
(***************************************************************************)
MaxLateSteps == 6

LateClasses == {"Foo", "Bar"}
LateItems == {"id", "bar", "foo"}

\* S while another step may be made
LateGo(S) == IF Len(calls) + Len(gets) < MaxLateSteps THEN S ELSE {}

\* The classes that exist, the path obtained last, the builder made
LateDeclared == LateGo(LateClasses \cap DOMAIN registry)
LatePaths == LateGo(IF pbs = <<>> THEN {} ELSE {Len(pbs)})
LateUnselected == IF builders = <<>> THEN LateDeclared ELSE {}
LateBuilder == LateGo(DOMAIN builders)

NextLate ==
    \/ \E name \in LateGo(LateClasses) : Declare(name, ClassAttrs(name))
    \/ \E m \in LateDeclared : \E item \in LateItems : ModelAccess(m, item)
    \/ \E i \in LatePaths : \E item \in LateItems : PathAccess(i, item)
    \/ \E m \in LateUnselected : Select(m)
    \/ \E b \in LateBuilder : \E i \in LatePaths :
           pbs[i].model = builders[b].model /\ Join(b, pbs[i])
    \/ \E b \in LateBuilder : Render(b)

SpecLate == InitSchema /\ [][NextLate]_vars

\* The entity types the relationships of a path lead to, from m
PathTargets(m, path) == {Reached(m, SubSeq(path, 1, k)) : k \in 1..Len(path)}

RECURSIVE GraphPaths(_, _, _)
\* The paths from the root that the nodes under `node` stand for
GraphPaths(heap, node, prefix) ==
    LET cs == heap[node].child_relationships
    IN  UNION {{Append(prefix, cs[i].key)}
               \cup GraphPaths(heap, cs[i].node, Append(prefix, cs[i].key)) :
               i \in DOMAIN cs}

\* C21: a class whose relationship names an entity that is not registered is
\* declared without error; an access on a path succeeds, with the column
\* reference or the longer path of the entity the path leads to, when every
\* entity the path leads through is registered at the access, in whichever
\* order the classes were declared, and raises ModelNotRegistered when one
\* is not; a builder renders the columns of every joined path when every
\* entity its joins lead through is registered at the rendering, and raises
\* ModelNotRegistered when one is not.
C21_LateBoundTargets ==
    [][/\ (Len(calls') = Len(calls) + 1 /\ calls'[Len(calls')].op = "class")
          => LET c == calls'[Len(calls')]
             IN  /\ c.err = ""
                 /\ c.self \in DOMAIN registry'
                 /\ KeysOf(registry'[c.self]) = Sorted(KeysOf(c.arg))
       /\ (Len(gets') = Len(gets) + 1)
          => LET g == gets'[Len(gets')]
                 m == g.pre.model
                 end == Reached(m, g.pre.path)
             IN  IF PathTargets(m, g.pre.path) \subseteq DOMAIN registry
                 THEN Declares(end, g.item)
                      => /\ g.err = ""
                         /\ Declared(end, g.item).kind = "Relationship"
                            => /\ g.kind = "PathBuilder"
                               /\ pbs'[g.ret] = PathBuilder(m, Append(g.pre.path, g.item))
                         /\ Declared(end, g.item).kind = "Column"
                            => /\ g.kind = "ColumnPath"
                               /\ g.text = Dotted(m, g.pre.path) \o "."
                                           \o Declared(end, g.item).salesforce_name
                 ELSE /\ g.kind = "raised"
                      /\ g.err = "ModelNotRegistered"
       /\ (Len(calls') = Len(calls) + 1 /\ calls'[Len(calls')].op = "str")
          => LET c == calls'[Len(calls')]
                 self == builders[c.self]
                 paths == GraphPaths(nodes, self.graph, <<>>)
             IN  IF \A p \in paths : PathTargets(self.model, p) \subseteq DOMAIN registry
                 THEN /\ c.err = ""
                      /\ \A p \in paths :
                             Contains(c.after.text, Dotted(self.model, p) \o ".Id")
                 ELSE c.err = "ModelNotRegistered"
      ]_vars

\* C21 witness: Foo was declared before Bar; Foo.bar.id raised
\* ModelNotRegistered before Bar was declared and gave Foo.Bar.Id after
C21_Witness ==
    /\ Len(calls) = 2
    /\ calls[1].op = "class" /\ calls[1].self = "Foo"
    /\ calls[2].op = "class" /\ calls[2].self = "Bar"
    /\ Len(gets) = 3
    /\ gets[1].kind = "PathBuilder"
    /\ pbs[1] = PathBuilder("Foo", <<"bar">>)
    /\ gets[2].on = 1 /\ gets[2].item = "id" /\ gets[2].err = "ModelNotRegistered"
    /\ gets[3].on = 1 /\ gets[3].item = "id" /\ gets[3].text = "Foo.Bar.Id"

\* ---------------------------------------------------------------------
\* Chains of join calls on paths and their prefixes
\* ---------------------------------------------------------------------
MaxPrefixJoins == 3

PrefixJoinArgs == {Chain("Child", <<"mom">>).pb,
                   Chain("Child", <<"mom", "mom">>).pb,
                   Chain("Child", <<"teacher">>).pb,
                   Chain("Child", <<"teacher", "students">>).pb,
                   Chain("Child", <<"teacher", "students", "mom">>).pb,
                   Chain("Child", <<"dad">>).pb}

\* The builder at the end of the chain, while the chain may still grow
PrefixChained == IF Len(calls) < MaxPrefixJoins THEN {Len(builders)} ELSE {}

NextPrefix ==
    \/ \E b \in PrefixChained : \E p \in PrefixJoinArgs : Join(b, p)
    \/ \E b \in PrefixChained : Render(b)

SpecPrefix == Init /\ [][NextPrefix]_vars

\* q is a proper prefix of p
ProperPrefix(q, p) == Len(q) < Len(p) /\ SubSeq(p, 1, Len(q)) = q

\* the first two calls are select(model).join(first).join(second)
JoinedInTurn(first, second) ==
    /\ Len(calls) >= 2
    /\ calls[1].op = "join" /\ calls[1].self = 1 /\ calls[1].arg = first
    /\ calls[2].op = "join" /\ calls[2].self = calls[1].ret
    /\ calls[2].arg = second

\* str(select(model).join(path))
JoinedAlone(model, path) ==
    BuilderStr(NewBuilder(model, 1), AddPath(<<RelationshipNode("")>>, 1, path))

\* C22: for every relationship path P and every proper prefix Q of P, the
\* builders select(M).join(Q).join(P), select(M).join(P).join(Q) and
\* select(M).join(P) render the same text: the builder a first join call
\* returns renders as JoinedAlone of its path, and after a second join call
\* on a prefix or an extension of that path the returned builder renders, when
\* it is returned, as JoinedAlone of the longer of the two paths.
C22_JoinImpliesPrefixes ==
    /\ Len(calls) >= 1 /\ calls[1].op = "join"
       => calls[1].after = JoinedAlone(builders[1].model, calls[1].arg)
    /\ \A p, q \in {x.path : x \in PrefixJoinArgs} :
           ProperPrefix(q, p) /\ (JoinedInTurn(q, p) \/ JoinedInTurn(p, q))
           => /\ calls[2].after.err = ""
              /\ calls[2].after = JoinedAlone(builders[1].model, p)

C22_Witness ==
    /\ JoinedInTurn(<<"teacher", "students">>, <<"teacher", "students", "mom">>)
    /\ calls[2].after.text =
         "SELECT Child.Id, Child.Name, Child.Teacher.Id, (SELECT Child.Id, Child.Name, Child.Mom.Age, Child.Mom.Id, Child.Mom.Name FROM Child.Teacher.Students) FROM Child"
    /\ calls[2].after = JoinedAlone("Child", <<"teacher", "students", "mom">>)

\* ---------------------------------------------------------------------
\* get_model_in_path and get_relationship_attr_in_path on the paths that
\* attribute accesses build
\* ---------------------------------------------------------------------
MaxIndexSteps == 4

IndexRoots == {"LinkedList", "GraphNode"}
IndexItems == {"next", "list", "children"}
PathIndexes == -1 .. 2

\* S while another access or call may be made
Indexable(S) == IF Len(gets) + Len(calls) < MaxIndexSteps THEN S ELSE {}

\* The path the latest access handed back
LatestPath == Indexable(IF pbs = <<>> THEN {} ELSE {Len(pbs)})

\* pbs[i].get_model_in_path(path_index)
GetModelInPathCall(i, path_index) ==
    LET r == GetModelInPath(pbs[i], path_index)
    IN  /\ calls' = Append(calls,
                [op |-> "get_model_in_path", on |-> i, path_index |-> path_index,
                 err |-> r.err, model |-> r.model, found |-> FALSE, attr |-> NoAttr])
        /\ UNCHANGED <<registry, builders, nodes, frags, pbs, gets, pc, instances>>

\* pbs[i].get_relationship_attr_in_path(path_index)
GetRelationshipAttrInPathCall(i, path_index) ==
    LET r == GetRelationshipAttrInPath(pbs[i], path_index)
    IN  /\ calls' = Append(calls,
                [op |-> "get_relationship_attr_in_path", on |-> i,
                 path_index |-> path_index,
                 err |-> r.err, model |-> "", found |-> r.found, attr |-> r.attr])
        /\ UNCHANGED <<registry, builders, nodes, frags, pbs, gets, pc, instances>>

NextIndex ==
    \/ \E m \in Indexable(IndexRoots) : \E item \in IndexItems : ModelAccess(m, item)
    \/ \E i \in LatestPath : \E item \in IndexItems : PathAccess(i, item)
    \/ \E i \in LatestPath : \E n \in PathIndexes : GetModelInPathCall(i, n)
    \/ \E i \in LatestPath : \E n \in PathIndexes : GetRelationshipAttrInPathCall(i, n)

SpecIndex == Init /\ [][NextIndex]_vars

\* The relationship field at position n (counted from 0) of pb's path
FieldAt(pb, n) == Declared(Reached(pb.model, SubSeq(pb.path, 1, n)), pb.path[n + 1])

\* The calls with an index inside the path, and those with index -1
IndexedInside(c) == c.path_index >= 0 /\ c.path_index < Len(pbs[c.on].path)
IndexedLast(c) == c.path_index = -1 /\ Len(pbs[c.on].path) >= 1

\* What every call gives for the relationship field, and for index -1
FieldAndLastAsStated(c) ==
    /\ IndexedInside(c) \/ IndexedLast(c) => c.err = ""
    /\ c.op = "get_relationship_attr_in_path" /\ IndexedInside(c)
       => c.found /\ c.attr = FieldAt(pbs[c.on], c.path_index)
    /\ c.op = "get_relationship_attr_in_path" /\ IndexedLast(c)
       => c.found /\ c.attr = FieldAt(pbs[c.on], Len(pbs[c.on].path) - 1)
    /\ c.op = "get_model_in_path" /\ IndexedLast(c)
       => c.model = Reached(pbs[c.on].model, pbs[c.on].path)

\* C23 as stated: for every relationship path of length L >= 1 and every
\* index N with 0 <= N < L, get_relationship_attr_in_path(N) returns the
\* relationship field at position N of the path and get_model_in_path(N)
\* returns the entity type reached after N steps of the path; N = -1 gives
\* the relationship at the last position and the entity type reached after
\* the full path.
C23_ModelAfterNSteps ==
    \A k \in DOMAIN calls :
        /\ FieldAndLastAsStated(calls[k])
        /\ calls[k].op = "get_model_in_path" /\ IndexedInside(calls[k])
           => calls[k].model =
                Reached(pbs[calls[k].on].model,
                        SubSeq(pbs[calls[k].on].path, 1, calls[k].path_index))

\* C23 amended: get_model_in_path(N) returns the entity type that the
\* relationship at position N leads to, which is the entity type reached
\* after N + 1 steps of the path; the rest as stated.
C23_ModelAfterFieldAtN ==
    \A k \in DOMAIN calls :
        /\ FieldAndLastAsStated(calls[k])
        /\ calls[k].op = "get_model_in_path" /\ IndexedInside(calls[k])
           => /\ calls[k].model =
                   Reached(pbs[calls[k].on].model,
                           SubSeq(pbs[calls[k].on].path, 1, calls[k].path_index + 1))
              /\ calls[k].model =
                   FieldAt(pbs[calls[k].on], calls[k].path_index).related_model

\* GraphNode.children.list.next: index 1 gives LinkedList and the field `list`
C23_Witness ==
    /\ Len(pbs) = 3 /\ Len(calls) = 1
    /\ pbs[3] = PathBuilder("GraphNode", <<"children", "list", "next">>)
    /\ calls[1].on = 3 /\ calls[1].path_index = 1
    /\ calls[1].op = "get_model_in_path" /\ calls[1].model = "LinkedList"
    /\ Reached("GraphNode", <<"children">>) = "GraphNode"

\* ---------------------------------------------------------------------
\* One model instance: construction or load, then assignments, reads,
\* changes() and reset_instance_state().  Every call appends to `calls`:
\*   op, self, key, arg   the call, the instance (0: none was made), the
\*                        attribute and the value, keywords or payload given
\*   err                  the exception it raised ("": none)
\*   value                the value a read returned
\*   changes              the dictionary changes() returned, as a set of
\*                        <<remote name, value>> entries
\*   held, coerced        for an assignment: the outcome of reading the
\*                        attribute and of coercing the value when it began
\* ---------------------------------------------------------------------
MaxInstanceSteps == 4

InstanceModels == {"AllZeTypes"}

InitArgs ==
    {[id |-> PyInt(456), name |-> PyStr("Jill"),
      start_date |-> PyDate("1990-10-19"), end_date |-> PyDate("1990-10-20")],
     [id |-> PyInt(456), name |-> PyStr("Jill")],
     [id |-> PyStr("456"), name |-> PyInt(11), start_date |-> PyStr("1990-10-19"),
      end_date |-> PyNone, parent |-> PyModel("AParent")],
     [id |-> PyInt(456), name |-> UNLOADED, start_date |-> PyDate("1990-10-19"),
      end_date |-> UNLOADED, parent |-> UNLOADED],
     [id |-> PyInt(456), name |-> PyNone]}

LoadArgs ==
    {[attributes |-> PyDict("AllZeTypes"), Id |-> PyStr("123"), Name |-> PyInt(11),
      StartDate |-> PyStr("1990-10-19"), EndDate |-> PyNone],
     [Id |-> PyInt(123), Name |-> PyStr("Jill"), StartDate |-> PyStr("1990-10-19"),
      EndDate |-> PyStr("1990-10-20"), Parent |-> PyDict("AParent")],
     [attributes |-> PyDict("AllZeTypes"), Id |-> PyStr("123"), Name |-> PyInt(11)],
     [Id |-> PyInt(123), Name |-> PyStr("Jill"), StartDate |-> PyStr("1990-10-19"),
      Parent |-> PyDict("AParent")]}

AssignArgs(key) ==
    CASE key = "id" -> {PyInt(456), PyStr("7")}
      [] key = "name" -> {PyStr("Jill"), PyStr("Bill"), PyNone}
      [] key = "start_date" -> {PyDate("1990-10-20")}
      [] key = "end_date" -> {PyDate("1990-10-20"), PyNone}
      [] key = "parent" -> {PyModel("AParent")}
      [] OTHER -> {}

NoOutcome == [err |-> "", value |-> NoValue]

\* S while another call may be made
InstanceGo(S) == IF Len(calls) < MaxInstanceSteps THEN S ELSE {}

\* the classes an instance can be made of: one instance is made, first
Unmade == IF calls = <<>> THEN InstanceModels ELSE {}
Made == InstanceGo(DOMAIN instances)

\* What making an instance leaves: the instance if none was raised
MadeBy(op, arg, r) ==
    /\ instances' = IF r.err = "" THEN Append(instances, r.instance) ELSE instances
    /\ calls' = Append(calls,
            [op |-> op, self |-> IF r.err = "" THEN Len(instances) + 1 ELSE 0,
             key |-> "", arg |-> arg, err |-> r.err, value |-> NoValue,
             changes |-> {}, held |-> NoOutcome, coerced |-> NoOutcome])
    /\ UNCHANGED <<registry, builders, nodes, frags, pbs, gets, pc>>

\* m(**kwargs)
Construct(m, kwargs) == MadeBy("init", kwargs, ModelInit(m, kwargs))

\* m.load(data)
LoadCall(m, data) == MadeBy("load", data, ModelLoad(m, data))

\* instance.key = value
SetattrCall(i, key, value) ==
    LET r == ModelSetattr(instances[i], key, value)
    IN  /\ instances' = [instances EXCEPT ![i] = r.instance]
        /\ calls' = Append(calls,
                [op |-> "setattr", self |-> i, key |-> key, arg |-> value,
                 err |-> r.err, value |-> NoValue, changes |-> {},
                 held |-> Getattr(instances[i], key),
                 coerced |-> Coerce(TypedAttr(instances[i].model, key), value)])
        /\ UNCHANGED <<registry, builders, nodes, frags, pbs, gets, pc>>

\* instance.key
GetattrCall(i, key) ==
    LET r == Getattr(instances[i], key)
    IN  /\ calls' = Append(calls,
                [op |-> "getattr", self |-> i, key |-> key, arg |-> NoValue,
                 err |-> r.err, value |-> r.value, changes |-> {},
                 held |-> NoOutcome, coerced |-> NoOutcome])
        /\ UNCHANGED <<registry, builders, nodes, frags, pbs, gets, pc, instances>>

\* instance.changes()
ChangesCall(i) ==
    LET r == ModelChanges(instances[i])
    IN  /\ calls' = Append(calls,
                [op |-> "changes", self |-> i, key |-> "", arg |-> NoValue,
                 err |-> r.err, value |-> NoValue, changes |-> r.changes,
                 held |-> NoOutcome, coerced |-> NoOutcome])
        /\ UNCHANGED <<registry, builders, nodes, frags, pbs, gets, pc, instances>>

\* instance.reset_instance_state()
ResetCall(i) ==
    /\ instances' = [instances EXCEPT ![i] = ResetInstanceState(@)]
    /\ calls' = Append(calls,
            [op |-> "reset_instance_state", self |-> i, key |-> "", arg |-> NoValue,
             err |-> "", value |-> NoValue, changes |-> {},
             held |-> NoOutcome, coerced |-> NoOutcome])
    /\ UNCHANGED <<registry, builders, nodes, frags, pbs, gets, pc>>

NextInstance ==
    \/ \E m \in Unmade : \E kwargs \in InitArgs : Construct(m, kwargs)
    \/ \E m \in Unmade : \E data \in LoadArgs : LoadCall(m, data)
    \/ \E i \in Made : \E key \in TypedKeys(instances[i].model) :
           \E value \in AssignArgs(key) : SetattrCall(i, key, value)
    \/ \E i \in Made : \E key \in TypedKeys(instances[i].model) : GetattrCall(i, key)
    \/ \E i \in Made : ChangesCall(i)
    \/ \E i \in Made : ResetCall(i)

SpecInstance == Init /\ [][NextInstance]_vars

\* key is a declared column of the model of instance i
IsColumnOf(i, key) ==
    key \in TypedKeys(instances[i].model)
    /\ TypedAttr(instances[i].model, key).kind = "Column"

\* the call that made instance i or last reset it
LastReset(i) ==
    CHOOSE k \in DOMAIN calls :
        /\ calls[k].self = i
        /\ calls[k].op \in {"init", "load", "reset_instance_state"}
        /\ \A j \in DOMAIN calls :
               calls[j].self = i /\ calls[j].op \in {"init", "load", "reset_instance_state"}
               => j <= k

\* the columns of instance i that, since then, were assigned a coerced value
\* different from the value held when the assignment was made
AssignedAnew(i) ==
    {calls[k].key : k \in {j \in DOMAIN calls :
        /\ j > LastReset(i)
        /\ calls[j].self = i /\ calls[j].op = "setattr" /\ calls[j].err = ""
        /\ IsColumnOf(i, calls[j].key)
        /\ calls[j].coerced.value # calls[j].held.value}}

\* the remote name and the serialized current value of each of them
ChangesOfAssigned(i) ==
    {<<TypedAttr(instances[i].model, key).salesforce_name,
       Serialize(TypedAttr(instances[i].model, key),
                 instances[i].instance_attrs[key]).value>> : key \in AssignedAnew(i)}

\* changes() tracks the columns assigned anew, whatever it does with them
C24_TracksAssignedColumns ==
    \A i \in DOMAIN instances : instances[i].changed_attrs = AssignedAnew(i)

\* C24: after any sequence of column assignments and reset_instance_state()
\* calls, changes() returns the dictionary that maps the remote name to the
\* serialized current value of exactly the columns assigned a coerced value
\* different from the one held at that assignment since construction or the
\* last reset; it is empty right after construction and right after a reset.
C24_ChangesOfAssignedColumns ==
    /\ \A i \in DOMAIN instances :
           /\ ModelChanges(instances[i]).err = ""
           /\ ModelChanges(instances[i]).changes = ChangesOfAssigned(i)
           /\ LastReset(i) = Len(calls) => ModelChanges(instances[i]).changes = {}
    /\ \A k \in DOMAIN calls : calls[k].op = "changes" => calls[k].err = ""

\* the assignments of a non-null value that coerces to a column of instance i
AssignsColumn(k) ==
    /\ calls[k].op = "setattr"
    /\ IsColumnOf(calls[k].self, calls[k].key)
    /\ calls[k].arg # PyNone
    /\ calls[k].coerced.err = ""

\* C25: for every model instance and every declared column of it, whether
\* the attribute was given at construction, never set (UNSET) or not loaded
\* (UNLOADED), assigning a non-null value v succeeds and a subsequent read
\* of the attribute returns the coerced v.
C25_AssignThenRead ==
    \A k \in DOMAIN calls :
        AssignsColumn(k)
        => /\ calls[k].err = ""
           /\ k = Len(calls)
              => Getattr(instances[calls[k].self], calls[k].key)
                   = [err |-> "", value |-> calls[k].coerced.value]
           /\ k < Len(calls) /\ calls[k + 1].op = "getattr"
              /\ calls[k + 1].key = calls[k].key
              => /\ calls[k + 1].err = ""
                 /\ calls[k + 1].value = calls[k].coerced.value

\* the same for the columns that held a value when the assignment was made
C25_AssignThenReadWhenHeld ==
    \A k \in DOMAIN calls :
        AssignsColumn(k) /\ calls[k].held.err = ""
        => /\ calls[k].err = ""
           /\ k = Len(calls)
              => Getattr(instances[calls[k].self], calls[k].key)
                   = [err |-> "", value |-> calls[k].coerced.value]
           /\ k < Len(calls) /\ calls[k + 1].op = "getattr"
              /\ calls[k + 1].key = calls[k].key
              => /\ calls[k + 1].err = ""
                 /\ calls[k + 1].value = calls[k].coerced.value

\* the payload or the keywords that made instance i
MadeWith(i) == calls[CHOOSE k \in DOMAIN calls :
                         calls[k].self = i /\ calls[k].op \in {"init", "load"}]

\* the attributes of instance i that were absent when it was made
AbsentAtLoad(i) ==
    {key \in TypedKeys(instances[i].model) :
        /\ MadeWith(i).op = "load"
        /\ TypedAttr(instances[i].model, key).salesforce_name \notin DOMAIN MadeWith(i).arg}
OmittedAtInit(i) ==
    {key \in TypedKeys(instances[i].model) :
        MadeWith(i).op = "init" /\ key \notin DOMAIN MadeWith(i).arg}

\* a value was assigned to `key` of the instance before call k
AssignedBefore(k, key) ==
    \E j \in 1..(k - 1) :
        /\ calls[j].op = "setattr" /\ calls[j].self = calls[k].self
        /\ calls[j].key = key /\ calls[j].err = ""

\* load fails on a payload without the remote name of a declared column and
\* makes no instance
LoadNeedsColumns ==
    \A k \in DOMAIN calls :
        calls[k].op = "load"
        /\ (\E a \in DOMAIN TypedDeclaredAttrs("AllZeTypes") :
               /\ TypedDeclaredAttrs("AllZeTypes")[a].kind = "Column"
               /\ TypedDeclaredAttrs("AllZeTypes")[a].salesforce_name
                    \notin DOMAIN calls[k].arg)
        => calls[k].err = "ExpectedColumnMissing" /\ calls[k].self = 0
           /\ instances = <<>>

\* the exception a read of an absent or omitted attribute raises
RaisesWhenRead(k) ==
    IF calls[k].key \in AbsentAtLoad(calls[k].self) THEN "AttributeNotLoaded"
    ELSE "AttributeNotSet"

C29_FragmentTextFixed ==
    [][\A f \in DOMAIN frags :
           frags[f].has_where
           => FragTextIn(frags', builders', f) = FragTextIn(frags, builders, f)]_vars

\* Every builder method with one argument each, on any builder made so far
MaxReadCalls == 3

Readable == IF Len(calls) < MaxReadCalls THEN DOMAIN builders ELSE {}

NextReads ==
    \/ \E b \in Readable : \E p \in ChainJoinArgs : Join(b, p)
    \/ \E b \in Readable : Where(b, FilterX)
    \/ \E b \in Readable : OrderBy(b, ChildName, "", "")
    \/ \E b \in Readable : Limit(b, 10)
    \/ \E b \in Readable : Offset(b, 10)
    \/ \E b \in Readable : CountCall(b)
    \/ \E b \in Readable : \E cols \in ColumnsArgs : Columns(b, cols)
    \/ \E b \in Readable : Subquery(b)
    \/ \E b \in Readable : Render(b)

SpecReads == Init /\ [][NextReads]_vars

\* calls j..k are str() and subquery() calls only
OnlyReads(j, k) == \A i \in j..k : calls[i].op \in {"str", "subquery"}

\* C30: a step that renders a builder or calls subquery() on it leaves every
\* builder and every join graph node as it was, the text str() returns is
\* the text of the builder's fields, and two str() calls on a builder with
\* nothing but str() and subquery() calls between them return the same text.
C30_RenderAndSubqueryReadOnly ==
    [][LET c == calls'[Len(calls')]
       IN  (Len(calls') = Len(calls) + 1 /\ c.op \in {"str", "subquery"})
           => /\ builders' = builders
              /\ nodes' = nodes
              /\ c.pre = builders'[c.self]
              /\ c.op = "str"
                 => /\ c.after = BuilderStr(builders[c.self], nodes)
                    /\ c.after = BuilderStr(builders'[c.self], nodes')
                    /\ \A j \in DOMAIN calls :
                           (calls[j].op = "str" /\ calls[j].self = c.self
                            /\ OnlyReads(j, Len(calls)))
                           => calls[j].after = c.after]_vars

\* C30 witness: a filtered builder was asked for a subquery and then
\* rendered: its fields are what they were before the subquery() call and
\* the text is the text it had then
C30_Witness ==
    /\ Len(calls) = 3
    /\ calls[1].op = "where" /\ calls[2].op = "subquery" /\ calls[3].op = "str"
    /\ calls[1].self = 1 /\ calls[2].self = 1 /\ calls[3].self = 1
    /\ calls[2].frag # 0
    /\ calls[2].pre.filters # <<>>
    /\ builders[1] = calls[2].pre
    /\ calls[3].after = calls[2].before
    /\ Contains(calls[3].after.text, " WHERE ")

====
